---------------------------- MODULE Spec2Model ----------------------------
(***************************************************************************)
(* Cross-marketplace reconciliation core of the Shopify <-> Bunjang        *)
(* middleware: processShopifyOrderForBunjang (orderService.js),            *)
(* syncBunjangInventoryToShopify (inventoryService.js) and                 *)
(* syncBunjangOrderStatuses (orderService.js).  Every await of the code is *)
(* one step of the model; the gateways (shopifyService, bunjangService)    *)
(* and the mongoose store answer nondeterministically.                     *)
(***************************************************************************)
EXTENDS Integers, Sequences, FiniteSets, TLC

VARIABLES
  shopifyOrder,   \* the order-created payload delivered to the handlers
  catalog,        \* storefront products: their tags
  mappings,       \* the SyncedProduct collection
  orderTags,      \* tags of the storefront order, in the order they were added
  orderMeta,      \* metafields of the storefront order (namespace "bunjang")
  bunjangOrders,  \* orders created at the remote marketplace, oldest first
  inv,            \* the invocations of processShopifyOrderForBunjang
  inventoryItem,  \* the storefront inventory item of the synced listing's variant
  sync,           \* the invocation of syncBunjangInventoryToShopify
  remoteOrders,   \* the marketplace's orders changed in the window, page by page
  statusSync,     \* the invocation of syncBunjangOrderStatuses
  listings,       \* the marketplace's live listings: price and shipping fee
  scheduler,      \* orderStatusSyncQueue and the cron registrations
  svc,            \* the invocation of an inventoryService function that calls the sync
  hook,           \* the invocation of a webhook handler
  faults          \* failures injected so far (gateways, store)

vars == <<shopifyOrder, catalog, mappings, orderTags, orderMeta, bunjangOrders,
          inv, inventoryItem, sync, remoteOrders, statusSync, listings, scheduler,
          svc, hook, faults>>

---------------------------------------------------------------------------
(* Bounds of the model. *)
NumInvocations == 2
MaxItems == 2
MaxQty == 2
MaxFaults == 2
MaxJobs == 3
MaxUpdates == 2
MaxEvents == 2

(* Identities.  A storefront order id, the first id the marketplace hands   *)
(* out, a price and a shipping fee.                                         *)
ShopifyOrderId == 5
FirstBunjangOrderId == 9
LivePrice == 50000
RaisedPrice == 55000
CachedPrice == 45000
LiveShippingFee == 3000

Invocations == 1..NumInvocations
Products == 1..MaxItems

\* The marketplace listing sold as storefront product p.
PidOf(p) == p + MaxItems

\* `gid://shopify/Product/${productId}`
ProductGid(productId) == <<"gid://shopify/Product/", productId>>
OrderGid(orderId) == <<"gid://shopify/Order/", orderId>>

\* An optional value: <<>> (null, undefined, missing) or <<v>>.
None == <<>>
Some(v) == <<v>>
IsSome(o) == Len(o) > 0
Val(o) == o[1]

---------------------------------------------------------------------------
(* Strings.  A tag `${pre}${n}${suf}` is the triple <<pre, n, suf>>, n = -1 *)
(* when the tag holds no number.  A decimal string is its digit sequence.  *)
NoNum == 0 - 1
Tag(pre, n, suf) == <<pre, n, suf>>

Digit == <<"0", "1", "2", "3", "4", "5", "6", "7", "8", "9">>

RECURSIVE DecStr(_)
\* String(n) of a non-negative integer
DecStr(n) == IF n < 10 THEN <<Digit[n + 1]>>
             ELSE DecStr(n \div 10) \o <<Digit[(n % 10) + 1]>>

RECURSIVE JoinQuoted(_)
JoinQuoted(strs) ==
  IF Len(strs) = 0 THEN <<>>
  ELSE <<"\"">> \o Head(strs) \o <<"\"">>
       \o (IF Len(strs) > 1 THEN <<",">> ELSE <<>>) \o JoinQuoted(Tail(strs))

\* JSON.stringify of an array of strings (ids hold digits only: no escapes)
JSONStringify(strs) == <<"[">> \o JoinQuoted(strs) \o <<"]">>

RECURSIVE ParseElems(_, _, _, _, _)
\* Scans text from position k: cur is the string being read when inStr.
ParseElems(text, k, inStr, cur, acc) ==
  IF k > Len(text) THEN acc
  ELSE LET c == text[k] IN
       IF inStr
       THEN IF c = "\"" THEN ParseElems(text, k + 1, FALSE, <<>>, Append(acc, cur))
            ELSE ParseElems(text, k + 1, TRUE, Append(cur, c), acc)
       ELSE IF c = "\"" THEN ParseElems(text, k + 1, TRUE, <<>>, acc)
            ELSE ParseElems(text, k + 1, FALSE, <<>>, acc)

\* JSON.parse of the text of an array of strings
JSONParse(text) == ParseElems(text, 1, FALSE, <<>>, <<>>)

---------------------------------------------------------------------------
(* The storefront gateway (shopifyService) on one order. *)

RECURSIVE MergeTags(_, _)
\* updateOrder({tags}): additive merge, a tag the order has is not added again
MergeTags(have, add) ==
  IF Len(add) = 0 THEN have
  ELSE LET t == Head(add) IN
       MergeTags(IF \E k \in 1..Len(have) : have[k] = t THEN have
                 ELSE Append(have, t), Tail(add))

MetaKeys == {"order_ids", "order_created_at", "purchase_confirmed",
             "purchase_confirmed_at", "last_status_sync", "last_bunjang_status"}

RECURSIVE SetMetafields(_, _)
\* updateOrder({metafields}): each (namespace, key) holds the last value set
SetMetafields(meta, fields) ==
  IF Len(fields) = 0 THEN meta
  ELSE SetMetafields([meta EXCEPT ![Head(fields).key] = Some(Head(fields).value)],
                     Tail(fields))

\* getOrderMetafield(orderGid, "bunjang", key): the metafield or null
GetOrderMetafield(key) == orderMeta[key]

---------------------------------------------------------------------------
(* The mapping store (SyncedProduct). *)

Mapping(id, pid, gid, dataId, status) ==
  [_id |-> id, bunjangPid |-> pid, shopifyGid |-> gid, shopifyDataId |-> dataId,
   syncStatus |-> status, bunjangOriginalPriceKrw |-> None,
   bunjangQuantity |-> None, lastInventorySyncAt |-> None]

\* The _id the store gives a new document: one no document holds.
NewId(store) ==
  1 + (CHOOSE n \in {MaxItems} \cup {m._id : m \in store} :
         \A k \in {MaxItems} \cup {m._id : m \in store} : k <= n)

\* findOne({$or: [{shopifyGid}, {'shopifyData.id': n}, {'shopifyData.id': String(n)}]})
FindByProduct(store, productId) ==
  {m \in store : \/ m.shopifyGid = Some(ProductGid(productId))
                 \/ m.shopifyDataId = Some(productId)}

\* DuplicateKey of a store without unique indexes.
DuplicateKey_NoIndex(store, m) == FALSE

\* The unique indexes of the schema: bunjangPid, and shopifyGid when present.
DuplicateKey(store, m) ==
  \E x \in store : \/ x.bunjangPid = m.bunjangPid
                   \/ (IsSome(m.shopifyGid) /\ x.shopifyGid = m.shopifyGid)

---------------------------------------------------------------------------
(* processShopifyOrderForBunjang: one record per invocation. *)

NoOrder == [id |-> 0, admin_graphql_api_id |-> None, line_items |-> <<>>]
NoDetails == [quantity |-> None, price |-> None, shippingFee |-> None]
NoResult == [kind |-> "none", success |-> FALSE, alreadyProcessed |-> FALSE,
             bunjangOrderIds |-> <<>>, error |-> ""]
NoTag == Tag("", NoNum, "")

IdleInv == [pc |-> "idle", order |-> NoOrder, item |-> 0,
            createdBunjangOrderIds |-> <<>>,
            bunjangOrderSuccessfullyCreatedOverall |-> FALSE,
            bunjangPid |-> 0, details |-> NoDetails, bunjangOrderId |-> 0,
            errorTag |-> NoTag, result |-> NoResult, log |-> <<>>]

\* One request to a gateway or to the store, as the invocation issued it.
Call(op, item, tags, metafields, arg, ok) ==
  [op |-> op, item |-> item, tags |-> tags, metafields |-> metafields,
   arg |-> arg, ok |-> ok, res |-> None, payload |-> None, errorCode |-> ""]

\* The same, with what the request answered.
Answered(call, res) == [call EXCEPT !.res = Some(res)]

\* The same, with the payload the request carried.
Sent(call, payload) == [call EXCEPT !.payload = Some(payload)]

\* The same, rejected with apiError.originalError.response.data.errorCode
\* ("" when the error carries none).
Rejected(call, errorCode) == [call EXCEPT !.errorCode = errorCode]

Logged(r, call) == [r EXCEPT !.log = Append(@, call)]

\* `${config.bunjang.orderIdentifierPrefix || 'BunjangOrder-'}${shopifyOrderId}`
BunjangOrderIdentifier(order) == Tag("BunjangOrder-", order.id, "")
ErrorMarker(order) == Tag("BunjangOrder-", order.id, "_Error")
PidTag(pid, what) == Tag("PID-", pid, what)
BunjangOrderTag(bunjangOrderId) == Tag("BunjangOrder-", bunjangOrderId, "")

Returned(r, res) == [r EXCEPT !.pc = "done", !.result = res]
Thrown(r, err) == Returned(r, [NoResult EXCEPT !.kind = "throw", !.error = err])

\* ValidOrder without the check of the GID.
ValidOrder_NoGid(order) ==
  /\ order.id # 0
  /\ Len(order.line_items) > 0

\* The order passes the check of its id, its GID and its line items.
ValidOrder(order) ==
  /\ order.id # 0
  /\ IsSome(order.admin_graphql_api_id)
  /\ Len(order.line_items) > 0

\* The end of the function: the result built from the overall flag.
FinalResult(r) ==
  IF r.bunjangOrderSuccessfullyCreatedOverall
  THEN Returned(r, [NoResult EXCEPT !.kind = "return", !.success = TRUE,
                                    !.bunjangOrderIds = r.createdBunjangOrderIds])
  ELSE Returned(r, [NoResult EXCEPT !.kind = "return", !.success = FALSE,
                                    !.error = "no Bunjang orders created"])

\* AfterLoop without the metafield write.
AfterLoop_NoRecord(r) == FinalResult(r)

\* After the loop: the metafield write when ids were created, else the result.
AfterLoop(r) ==
  IF Len(r.createdBunjangOrderIds) > 0 THEN [r EXCEPT !.pc = "writeMeta"]
  ELSE FinalResult(r)

\* `continue`, or the end of the loop body: the next line item, or the end.
NextItem(r) ==
  IF r.item < Len(r.order.line_items)
  THEN [r EXCEPT !.pc = "findOne", !.item = @ + 1]
  ELSE AfterLoop(r)

CurrentItem(r) == r.order.line_items[r.item]

\* MetafieldsInput recording the last created id alone.
MetafieldsInput_LastIdOnly(r) ==
  <<[key |-> "order_ids",
     value |-> JSONStringify(<<r.createdBunjangOrderIds[Len(r.createdBunjangOrderIds)]>>)],
    [key |-> "order_created_at", value |-> <<"now">>]>>

\* The metafields written after the loop.
MetafieldsInput(r) ==
  <<[key |-> "order_ids", value |-> JSONStringify(r.createdBunjangOrderIds)],
    [key |-> "order_created_at", value |-> <<"now">>]>>

\* The tag the catch block of the create call picks for a remote error code.
ErrorCodes == {"PRODUCT_NOT_FOUND", "PRODUCT_SOLD_OUT", "PRODUCT_ON_HOLD",
               "INVALID_PRODUCT_PRICE", "POINT_SHORTAGE", "SERVER_ERROR", ""}

\* ErrorTagFor without the switch on the error code.
ErrorTagFor_NoSwitch(pid, errorCode) == PidTag(pid, "-CreateFail")

ErrorTagFor(pid, errorCode) ==
  CASE errorCode \in {"PRODUCT_NOT_FOUND", "PRODUCT_SOLD_OUT", "PRODUCT_ON_HOLD"}
         -> PidTag(pid, "-NotAvailable")
    [] errorCode = "INVALID_PRODUCT_PRICE" -> PidTag(pid, "-PriceChanged")
    [] errorCode = "POINT_SHORTAGE" -> PidTag(pid, "-InsufficientPoints")
    [] OTHER -> PidTag(pid, "-CreateFail")

\* BunjangOrderPayload with the listing's shipping fee as delivery price.
BunjangOrderPayload_LiveShipping(pid, details) ==
  [product |-> [id |-> pid,
                price |-> IF IsSome(details.price) THEN Val(details.price) ELSE 0],
   deliveryPrice |-> IF IsSome(details.shippingFee) THEN Val(details.shippingFee)
                     ELSE 0]

\* The payload of the order-creation request.
BunjangOrderPayload(pid, details) ==
  [product |-> [id |-> pid,
                price |-> IF IsSome(details.price) THEN Val(details.price) ELSE 0],
   deliveryPrice |-> 0]

\* AvailableQuantity with a missing quantity counted as one unit.
AvailableQuantity_DefaultOne(details) ==
  IF IsSome(details.quantity) THEN Val(details.quantity) ELSE 1

\* `bunjangProductDetails.quantity || 0`
AvailableQuantity(details) ==
  IF IsSome(details.quantity) THEN Val(details.quantity) ELSE 0

CanFail == faults < MaxFaults
Fail == faults' = faults + 1
NoFail == faults' = faults

Step(p, r) == inv' = [inv EXCEPT ![p] = r]

---------------------------------------------------------------------------
(* The steps of processShopifyOrderForBunjang, one per await. *)

\* What no step of processShopifyOrderForBunjang writes.
OrderFrame ==
  UNCHANGED <<shopifyOrder, catalog, inventoryItem, sync, remoteOrders, statusSync,
              listings, scheduler, svc, hook>>

\* The payloads an order-created delivery can carry: the order, or the order
\* without its id, without its GID, or without line items.
Deliveries ==
  {shopifyOrder,
   [shopifyOrder EXCEPT !.id = 0],
   [shopifyOrder EXCEPT !.admin_graphql_api_id = None],
   [shopifyOrder EXCEPT !.line_items = <<>>]}

\* The invocation after the validation of the order it was called with.
Entered(r, order) ==
  IF ValidOrder(order) THEN [r EXCEPT !.pc = "getMeta", !.order = order]
  ELSE Thrown([r EXCEPT !.order = order], "ValidationError")

\* Entry: the validation, then the idempotency check.
Enter(p, order) ==
  /\ inv[p].pc = "idle"
  /\ Step(p, Entered(inv[p], order))
  /\ NoFail
  /\ OrderFrame
  /\ UNCHANGED <<mappings, orderTags, orderMeta, bunjangOrders>>

\* Invocations one after the other (a re-delivered webhook, a retried job).
Start(p) ==
  /\ \A q \in Invocations : inv[q].pc \in {"idle", "done"}
  /\ \A q \in Invocations : q < p => inv[q].pc = "done"
  /\ \E order \in Deliveries : Enter(p, order)

\* Invocations overlapping in time (concurrent deliveries of one order).
StartConcurrent(p) ==
  /\ \A q \in Invocations : q < p => inv[q].pc # "idle"
  /\ Enter(p, shopifyOrder)

\* AfterReadError with the error of the read thrown on.
AfterReadError_Rethrow(r) == Thrown(r, "getOrderMetafield")

\* catch (error) { logger.warn(...) } around the read of the metafield: the
\* function goes on to the loop, at its first line item.
AfterReadError(r) == [r EXCEPT !.pc = "findOne", !.item = 1]

\* await shopifyService.getOrderMetafield(shopifyOrderGid, "bunjang", "order_ids")
CheckExisting(p) ==
  LET r == inv[p]
      existingMetafield == GetOrderMetafield("order_ids")
      first == [r EXCEPT !.pc = "findOne", !.item = 1]
  IN
  /\ r.pc = "getMeta"
  /\ OrderFrame
  /\ UNCHANGED <<mappings, orderTags, orderMeta, bunjangOrders>>
  /\ \/ /\ NoFail
        /\ Step(p, IF IsSome(existingMetafield) /\ Len(Val(existingMetafield)) > 0
                   THEN Returned(Logged(r, Call("getOrderMetafield", 0, <<>>, <<>>, 0, TRUE)),
                          [NoResult EXCEPT !.kind = "return", !.success = TRUE,
                             !.alreadyProcessed = TRUE,
                             !.bunjangOrderIds = JSONParse(Val(existingMetafield))])
                   ELSE Logged(first, Call("getOrderMetafield", 0, <<>>, <<>>, 0, TRUE)))
     \/ /\ CanFail /\ Fail
        /\ Step(p, AfterReadError(Logged(r, Call("getOrderMetafield", 0, <<>>, <<>>,
                                                  0, FALSE))))

\* await SyncedProduct.findOne({$or: [...]}).lean()
FindOne(p) ==
  LET r == inv[p]
      productId == CurrentItem(r).product_id
      found == FindByProduct(mappings, productId)
      call(ok) == Call("findOne", r.item, <<>>, <<>>, productId, ok)
  IN
  /\ r.pc = "findOne"
  /\ OrderFrame
  /\ UNCHANGED <<mappings, orderTags, orderMeta, bunjangOrders>>
  /\ \/ /\ NoFail
        /\ found = {}
        /\ Step(p, Logged([r EXCEPT !.pc = "getTags", !.bunjangPid = 0], call(TRUE)))
     \/ /\ NoFail
        /\ \E syncedProduct \in found :
             Step(p, Logged([r EXCEPT !.pc = "getDetails",
                                      !.bunjangPid = syncedProduct.bunjangPid],
                            call(TRUE)))
     \/ /\ CanFail /\ Fail
        /\ Step(p, Thrown(Logged(r, call(FALSE)), "findOne"))

\* product.tags.find(tag => tag.startsWith('bunjang_pid:'))
BunjangPidTags(tags) == SelectSeq(tags, LAMBDA t : t[1] = "bunjang_pid:")

\* await shopifyService.shopifyGraphqlRequest(productQuery, {id: productGid})
GetProductTags(p) ==
  LET r == inv[p]
      productId == CurrentItem(r).product_id
      product == catalog[productId]
      pidTags == BunjangPidTags(product.tags)
      call(ok) == Call("getProductTags", r.item, <<>>, <<>>, productId, ok)
  IN
  /\ r.pc = "getTags"
  /\ OrderFrame
  /\ UNCHANGED <<mappings, orderTags, orderMeta, bunjangOrders>>
  /\ \/ /\ NoFail
        /\ Step(p, IF product.exists /\ Len(pidTags) > 0
                   THEN Logged([r EXCEPT !.pc = "create",
                                         !.bunjangPid = Head(pidTags)[2]], call(TRUE))
                   ELSE NextItem(Logged(r, call(TRUE))))
     \/ /\ CanFail /\ Fail
        /\ Step(p, NextItem(Logged(r, call(FALSE))))

\* await SyncedProduct.create({shopifyGid: product.id, ..., syncStatus: 'SYNCED'})
CreateMapping(p) ==
  LET r == inv[p]
      productId == CurrentItem(r).product_id
      doc == Mapping(NewId(mappings), r.bunjangPid, Some(ProductGid(productId)),
                     Some(productId), "SYNCED")
      call(ok) == Call("create", r.item, <<>>, <<>>, r.bunjangPid, ok)
  IN
  /\ r.pc = "create"
  /\ OrderFrame
  /\ UNCHANGED <<orderTags, orderMeta, bunjangOrders>>
  /\ \/ /\ NoFail
        /\ ~DuplicateKey(mappings, doc)
        /\ mappings' = mappings \cup {doc}
        /\ Step(p, Logged([r EXCEPT !.pc = "getDetails"], call(TRUE)))
     \/ /\ NoFail
        /\ DuplicateKey(mappings, doc)
        /\ UNCHANGED mappings
        /\ Step(p, NextItem(Logged([r EXCEPT !.bunjangPid = 0], call(FALSE))))
     \/ /\ CanFail /\ Fail
        /\ UNCHANGED mappings
        /\ Step(p, NextItem(Logged([r EXCEPT !.bunjangPid = 0], call(FALSE))))

\* The marketplace's listing of a pid.
ListingOf(pid) == listings[CHOOSE k \in DOMAIN listings : PidOf(k) = pid]

\* What the live product-detail fetch of a pid can answer: the listing's price
\* and shipping fee, with a unit in stock or no quantity at all.
LiveDetails(pid) ==
  {[quantity |-> q, price |-> ListingOf(pid).price,
    shippingFee |-> ListingOf(pid).shippingFee] : q \in {None, Some(1)}}

\* await bunjangService.getBunjangProductDetails(bunjangPid)
GetDetails(p) ==
  LET r == inv[p]
      call(ok) == Call("getBunjangProductDetails", r.item, <<>>, <<>>, r.bunjangPid, ok)
  IN
  /\ r.pc = "getDetails"
  /\ OrderFrame
  /\ UNCHANGED <<mappings, orderTags, orderMeta, bunjangOrders>>
  /\ \/ /\ NoFail
        /\ Step(p, Logged([r EXCEPT !.pc = "tagNotFound", !.details = NoDetails],
                          call(TRUE)))
     \/ /\ NoFail
        /\ \E bunjangProductDetails \in LiveDetails(r.bunjangPid) :
             Step(p, Logged([r EXCEPT
                       !.pc = IF AvailableQuantity(bunjangProductDetails)
                                   < CurrentItem(r).quantity
                              THEN "tagInsufficient" ELSE "createOrder",
                       !.details = bunjangProductDetails],
                     Answered(call(TRUE), bunjangProductDetails)))
     \/ /\ CanFail /\ Fail
        /\ Step(p, Logged([r EXCEPT !.pc = "tagException"], call(FALSE)))

ToException(r) == [r EXCEPT !.pc = "tagException"]
ToCreateFail(r) ==
  [r EXCEPT !.pc = "tagCreateErr", !.errorTag = PidTag(r.bunjangPid, "-CreateFail")]
ToPointBalance(r) == [r EXCEPT !.pc = "pointBalance"]
ThrownByUpdateOrder(r) == Thrown(r, "updateOrder")

\* Where the invocation goes on after an updateOrder: the next statement after
\* it, or the catch block that encloses it.
GoOn(how, r) ==
  CASE how = "NextItem" -> NextItem(r)
    [] how = "ToException" -> ToException(r)
    [] how = "ToCreateFail" -> ToCreateFail(r)
    [] how = "ToPointBalance" -> ToPointBalance(r)
    [] how = "FinalResult" -> FinalResult(r)
    [] OTHER -> ThrownByUpdateOrder(r)

\* One await shopifyService.updateOrder({id, tags, metafields}) of the
\* invocation: it is applied and the invocation goes on as onOk, or it
\* throws, nothing is applied, and the invocation goes on as onThrow.
UpdateOrder(p, at, tags, metafields, onOk, onThrow) ==
  LET r == inv[p]
      \* the line item the request is made for: none after the loop
      k == IF at = "writeMeta" THEN 0 ELSE r.item
      call(ok) == Call("updateOrder", k, tags, metafields, 0, ok)
  IN
  /\ r.pc = at
  /\ OrderFrame
  /\ UNCHANGED <<mappings, bunjangOrders>>
  /\ \/ /\ NoFail
        /\ orderTags' = MergeTags(orderTags, tags)
        /\ orderMeta' = SetMetafields(orderMeta, metafields)
        /\ Step(p, GoOn(onOk, Logged(r, call(TRUE))))
     \/ /\ CanFail /\ Fail
        /\ UNCHANGED <<orderTags, orderMeta>>
        /\ Step(p, GoOn(onThrow, Logged(r, call(FALSE))))

\* tags: [`${bunjangOrderIdentifier}_Error`, `PID-${bunjangPid}-NotFound`]
TagNotFound(p) ==
  UpdateOrder(p, "tagNotFound",
              <<ErrorMarker(inv[p].order), PidTag(inv[p].bunjangPid, "-NotFound")>>,
              <<>>, "NextItem", "ToException")

\* tags: [`${bunjangOrderIdentifier}_Error`, `PID-${bunjangPid}-InsufficientStock`]
TagInsufficientStock(p) ==
  UpdateOrder(p, "tagInsufficient",
              <<ErrorMarker(inv[p].order),
                PidTag(inv[p].bunjangPid, "-InsufficientStock")>>,
              <<>>, "NextItem", "ToException")

\* await bunjangService.createBunjangOrderV2(bunjangOrderPayload)
CreateBunjangOrder(p) ==
  LET r == inv[p]
      payload == BunjangOrderPayload(r.bunjangPid, r.details)
      id == FirstBunjangOrderId + Len(bunjangOrders)
      call(ok) == Sent(Call("createBunjangOrderV2", r.item, <<>>, <<>>, r.bunjangPid,
                            ok), payload)
  IN
  /\ r.pc = "createOrder"
  /\ OrderFrame
  /\ UNCHANGED <<mappings, orderTags, orderMeta>>
  /\ \/ /\ NoFail
        /\ bunjangOrders' = Append(bunjangOrders,
             [id |-> id, product |-> payload.product,
              deliveryPrice |-> payload.deliveryPrice, by |-> p, item |-> r.item])
        /\ Step(p, Logged([r EXCEPT
                     !.pc = "tagSuccess", !.bunjangOrderId = id,
                     !.createdBunjangOrderIds = Append(@, DecStr(id)),
                     !.bunjangOrderSuccessfullyCreatedOverall = TRUE],
                            Answered(call(TRUE), id)))
     \/ /\ CanFail /\ Fail
        /\ UNCHANGED bunjangOrders
        /\ Step(p, Logged([r EXCEPT !.pc = "tagNoOrderId"], call(TRUE)))
     \/ /\ CanFail /\ Fail
        /\ UNCHANGED bunjangOrders
        /\ \E errorCode \in ErrorCodes :
             Step(p, Logged([r EXCEPT !.pc = "tagCreateErr",
                                      !.errorTag = ErrorTagFor(r.bunjangPid, errorCode)],
                            Rejected(call(FALSE), errorCode)))

\* tags: [`BunjangOrder-${bunjangOrderId}`]; a throw lands in the catch block
\* of the create call.
TagSuccess(p) ==
  UpdateOrder(p, "tagSuccess", <<BunjangOrderTag(inv[p].bunjangOrderId)>>, <<>>,
              "ToPointBalance", "ToCreateFail")

\* const LOW_BALANCE_THRESHOLD = config.bunjang.lowBalanceThreshold || 1000000
LOW_BALANCE_THRESHOLD == 1000000

\* if (pointBalance.balance < LOW_BALANCE_THRESHOLD): the tag is due
AfterBalance(r, balance) ==
  IF balance < LOW_BALANCE_THRESHOLD THEN [r EXCEPT !.pc = "tagLowBalance"]
  ELSE NextItem(r)

\* await bunjangService.getBunjangPointBalance(): the balance is at the
\* threshold, or it is one below it, or the answer is empty, or the request
\* throws.
GetPointBalance(p) ==
  LET r == inv[p]
      call(ok) == Call("getBunjangPointBalance", r.item, <<>>, <<>>, 0, ok)
      answered(balance) ==
        Step(p, AfterBalance(Logged(r, Answered(call(TRUE), balance)), balance))
  IN
  /\ r.pc = "pointBalance"
  /\ OrderFrame
  /\ UNCHANGED <<mappings, orderTags, orderMeta, bunjangOrders>>
  /\ \/ /\ NoFail
        /\ answered(LOW_BALANCE_THRESHOLD)
     \/ /\ CanFail /\ Fail
        /\ answered(LOW_BALANCE_THRESHOLD - 1)
     \/ /\ CanFail /\ Fail
        /\ Step(p, NextItem(Logged(r, call(TRUE))))
     \/ /\ CanFail /\ Fail
        /\ Step(p, NextItem(Logged(r, call(FALSE))))

\* TagLowBalance outside the try of the balance check.
TagLowBalance_Escapes(p) ==
  UpdateOrder(p, "tagLowBalance", <<Tag("LowPointBalance", NoNum, "")>>, <<>>,
              "NextItem", "ToCreateFail")

\* tags: [`LowPointBalance`]; a throw is caught with the balance check
TagLowBalance(p) ==
  UpdateOrder(p, "tagLowBalance", <<Tag("LowPointBalance", NoNum, "")>>, <<>>,
              "NextItem", "NextItem")

\* TagNoOrderId without the order's error marker.
TagNoOrderId_NoMarker(p) ==
  UpdateOrder(p, "tagNoOrderId", <<PidTag(inv[p].bunjangPid, "-NoOrderId")>>,
              <<>>, "NextItem", "ToCreateFail")

\* tags: [`${bunjangOrderIdentifier}_Error`, `PID-${bunjangPid}-NoOrderId`]
TagNoOrderId(p) ==
  UpdateOrder(p, "tagNoOrderId",
              <<ErrorMarker(inv[p].order), PidTag(inv[p].bunjangPid, "-NoOrderId")>>,
              <<>>, "NextItem", "ToCreateFail")

\* tags: [`${bunjangOrderIdentifier}_Error`, errorTag], in the catch of the create
TagCreateError(p) ==
  UpdateOrder(p, "tagCreateErr", <<ErrorMarker(inv[p].order), inv[p].errorTag>>,
              <<>>, "NextItem", "ToException")

\* tags: [`${bunjangOrderIdentifier}_Error`, `PID-${bunjangPid}-Exception`], in
\* the outer catch: a throw here leaves the function
TagException(p) ==
  UpdateOrder(p, "tagException",
              <<ErrorMarker(inv[p].order), PidTag(inv[p].bunjangPid, "-Exception")>>,
              <<>>, "NextItem", "ThrownByUpdateOrder")

\* updateOrder({tags: ['BunjangOrderPlaced', bunjangOrderIdentifier], metafields})
WriteMetafields(p) ==
  UpdateOrder(p, "writeMeta",
              <<Tag("BunjangOrderPlaced", NoNum, ""),
                BunjangOrderIdentifier(inv[p].order)>>,
              MetafieldsInput(inv[p]), "FinalResult", "ThrownByUpdateOrder")

ProcessStep(p) ==
  \/ CheckExisting(p)
  \/ FindOne(p)
  \/ GetProductTags(p)
  \/ CreateMapping(p)
  \/ GetDetails(p)
  \/ TagNotFound(p)
  \/ TagInsufficientStock(p)
  \/ CreateBunjangOrder(p)
  \/ TagSuccess(p)
  \/ GetPointBalance(p)
  \/ TagLowBalance(p)
  \/ TagNoOrderId(p)
  \/ TagCreateError(p)
  \/ TagException(p)
  \/ WriteMetafields(p)

---------------------------------------------------------------------------
(* syncBunjangInventoryToShopify (inventoryService.js): one listing, its     *)
(* storefront variant and the inventory item of that variant.               *)

\* The listing whose inventory is synced, and the product it is linked to.
SyncedPid == PidOf(1)

\* const BUNJANG_WAREHOUSE_GID = 'gid://shopify/Location/82604261625'
BUNJANG_WAREHOUSE_GID == <<"gid://shopify/Location/", "82604261625">>
OTHER_LOCATION_GID == <<"gid://shopify/Location/", "other">>

\* NormalizedQuantity that passes the caller's quantity on.
NormalizedQuantity_Passed(bunjangQuantity) == bunjangQuantity

\* const normalizedQuantity = 1, whatever quantity the caller passed
NormalizedQuantity(bunjangQuantity) == 1

NoLevels == <<>>
NoInventoryItem == [exists |-> FALSE, tracked |-> FALSE, onHand |-> None, other |-> 0]
IdleSync == [pc |-> "idle", bunjangPid |-> SyncedPid, bunjangQuantity |-> 0,
             shopifyGid |-> None,
             tracked |-> FALSE, finalLevels |-> NoLevels,
             bunjangWarehouseCorrect |-> FALSE, result |-> "none", log |-> <<>>]

\* One request of the sync to the storefront gateway or to the store.
SyncCall(op, location, quantity, ok) ==
  [op |-> op, location |-> location, quantity |-> quantity, ok |-> ok,
   userErrors |-> FALSE]

\* The same, answered with a non-empty userErrors list.
WithUserErrors(call) == [call EXCEPT !.userErrors = TRUE]

SyncLogged(s, call) == [s EXCEPT !.log = Append(@, call)]
SyncReturned(s, value) ==
  [s EXCEPT !.pc = "done", !.result = IF value THEN "true" ELSE "false"]
\* catch (error) { logger.error(...); throw error; }
SyncThrown(s) == [s EXCEPT !.pc = "done", !.result = "throw"]

\* inventoryLevels of the item as the storefront holds them: the other
\* location, and the warehouse when the item is provisioned there.
InventoryLevels ==
  <<[location |-> OTHER_LOCATION_GID, available |-> inventoryItem.other]>>
  \o (IF IsSome(inventoryItem.onHand)
      THEN <<[location |-> BUNJANG_WAREHOUSE_GID,
              available |-> Val(inventoryItem.onHand)]>>
      ELSE <<>>)

\* The levels of the re-read that are the warehouse's.
WarehouseLevels(levels) ==
  SelectSeq(levels, LAMBDA level : level.location = BUNJANG_WAREHOUSE_GID)

\* bunjangWarehouseCorrect after the verification loop over finalLevels
BunjangWarehouseCorrect(levels) ==
  /\ Len(WarehouseLevels(levels)) > 0
  /\ WarehouseLevels(levels)[Len(WarehouseLevels(levels))].available
       = NormalizedQuantity(0)

\* The loop reaches the corrective updateInventoryLevel: the warehouse is
\* among the levels and does not show the normalized quantity.
NeedsCorrection(levels) ==
  \E k \in 1..Len(WarehouseLevels(levels)) :
    WarehouseLevels(levels)[k].available # NormalizedQuantity(0)

SyncStep(s) == sync' = s

\* The sync writes the inventory item and the mapping's cached quantity only.
SyncFrame ==
  UNCHANGED <<shopifyOrder, catalog, orderTags, orderMeta, bunjangOrders, inv,
              remoteOrders, statusSync, listings, scheduler, svc, hook>>

\* syncBunjangInventoryToShopify(bunjangPid, bunjangQuantity) is called: by a
\* webhook handler, a batch, the full sync; one call after the other.
StartSync ==
  /\ sync.pc \in {"idle", "done"}
  /\ \E bunjangQuantity \in 0..MaxQty :
       SyncStep([IdleSync EXCEPT !.pc = "findOne",
                                 !.bunjangQuantity = bunjangQuantity])
  /\ NoFail
  /\ SyncFrame
  /\ UNCHANGED <<mappings, inventoryItem>>

\* NoShopifyProduct that looks at the presence of the mapping only.
NoShopifyProduct_MissingOnly(found) == found = {}

\* !syncedProduct || !syncedProduct.shopifyGid, for the documents the store
\* holds under the listing id (at most one: the index on bunjangPid is unique)
NoShopifyProduct(found) == \A m \in found : ~IsSome(m.shopifyGid)

\* await SyncedProduct.findOne({ bunjangPid }).lean()
SyncFindOne ==
  LET found == {m \in mappings : m.bunjangPid = sync.bunjangPid}
      call(ok) == SyncCall("findOne", None, NoNum, ok)
  IN
  /\ sync.pc = "findOne"
  /\ SyncFrame
  /\ UNCHANGED <<mappings, inventoryItem>>
  /\ \/ /\ NoFail
        /\ \/ /\ NoShopifyProduct(found)
              /\ SyncStep(SyncReturned(SyncLogged(sync, call(TRUE)), FALSE))
           \/ \E syncedProduct \in found :
                /\ ~NoShopifyProduct(found)
                /\ SyncStep(SyncLogged([sync EXCEPT
                              !.pc = "getVariants",
                              !.shopifyGid = syncedProduct.shopifyGid],
                            call(TRUE)))
     \/ /\ CanFail /\ Fail
        /\ SyncStep(SyncThrown(SyncLogged(sync, call(FALSE))))

\* variants.edges of the product holds a variant: the product of the synced
\* listing has its inventory item or none; the storefront holds no variant
\* of another product.
HasVariant(shopifyGid) ==
  /\ shopifyGid = Some(ProductGid(1))
  /\ inventoryItem.exists

\* FirstInventoryRequest that never enables tracking.
FirstInventoryRequest_NoTracking(tracked) == "activate"

\* if (!variant.inventoryItem.tracked) enable tracking first; then activate
FirstInventoryRequest(tracked) == IF tracked THEN "activate" ELSE "enableTracking"

\* await shopifyService.shopifyGraphqlRequest(query, {id: syncedProduct.shopifyGid})
GetProductVariants ==
  LET call(ok) == SyncCall("getProductVariants", None, NoNum, ok) IN
  /\ sync.pc = "getVariants"
  /\ SyncFrame
  /\ UNCHANGED <<mappings, inventoryItem>>
  /\ \/ /\ NoFail
        /\ SyncStep(IF ~HasVariant(sync.shopifyGid)
                    THEN SyncReturned(SyncLogged(sync, call(TRUE)), FALSE)
                    ELSE SyncLogged([sync EXCEPT
                           !.pc = FirstInventoryRequest(inventoryItem.tracked),
                           !.tracked = inventoryItem.tracked], call(TRUE)))
     \/ /\ CanFail /\ Fail
        /\ SyncStep(SyncThrown(SyncLogged(sync, call(FALSE))))

\* await shopifyService.enableInventoryTracking(inventoryItemId)
EnableInventoryTracking ==
  LET call(ok) == SyncCall("enableInventoryTracking", None, NoNum, ok) IN
  /\ sync.pc = "enableTracking"
  /\ SyncFrame
  /\ UNCHANGED mappings
  /\ \/ /\ NoFail
        /\ inventoryItem' = [inventoryItem EXCEPT !.tracked = TRUE]
        /\ SyncStep(SyncLogged([sync EXCEPT !.pc = "activate"], call(TRUE)))
     \/ /\ CanFail /\ Fail
        /\ UNCHANGED inventoryItem
        /\ SyncStep(SyncThrown(SyncLogged(sync, call(FALSE))))

\* await shopifyService.activateInventoryAtLocation(inventoryItemId, BUNJANG_WAREHOUSE_GID):
\* the item is provisioned at the location, or the request is accepted and
\* has not taken effect when the sync goes on, or it throws.
ActivateInventoryAtLocation ==
  LET call(ok) == SyncCall("activateInventoryAtLocation", Some(BUNJANG_WAREHOUSE_GID),
                           NoNum, ok)
      next == SyncLogged([sync EXCEPT !.pc = "setOnHand"], call(TRUE))
  IN
  /\ sync.pc = "activate"
  /\ SyncFrame
  /\ UNCHANGED mappings
  /\ \/ /\ NoFail
        /\ inventoryItem' = [inventoryItem EXCEPT
             !.onHand = IF IsSome(@) THEN @ ELSE Some(0)]
        /\ SyncStep(next)
     \/ /\ CanFail /\ Fail
        /\ UNCHANGED inventoryItem
        /\ SyncStep(next)
     \/ /\ CanFail /\ Fail
        /\ UNCHANGED inventoryItem
        /\ SyncStep(SyncThrown(SyncLogged(sync, call(FALSE))))

\* AfterUserErrors that logs the errors and goes on to the verification.
AfterUserErrors_GoOn(s) == [s EXCEPT !.pc = "finalCheck"]

\* if (...userErrors?.length > 0) { ...; throw new Error(`Failed to set
\* inventory: ${errorMessage}`) }, rethrown by the catch of the function
AfterUserErrors(s) == SyncThrown(s)

\* await shopifyService.shopifyGraphqlRequest(setQuantityMutation, {input: ...}):
\* the quantity is set; or the response carries userErrors (always when the
\* item is not provisioned at the location) and the sync throws; or the
\* response carries userErrors for another reason; or the response carries
\* no userErrors and the quantity is not set when the sync goes on; or the
\* request throws.
SetOnHandQuantities ==
  LET quantity == NormalizedQuantity(sync.bunjangQuantity)
      call(ok) == SyncCall("inventorySetOnHandQuantities", Some(BUNJANG_WAREHOUSE_GID),
                           quantity, ok)
      next == SyncLogged([sync EXCEPT !.pc = "finalCheck"], call(TRUE))
  IN
  /\ sync.pc = "setOnHand"
  /\ SyncFrame
  /\ UNCHANGED mappings
  /\ \/ /\ NoFail
        /\ IsSome(inventoryItem.onHand)
        /\ inventoryItem' = [inventoryItem EXCEPT !.onHand = Some(quantity)]
        /\ SyncStep(next)
     \/ /\ NoFail
        /\ ~IsSome(inventoryItem.onHand)
        /\ UNCHANGED inventoryItem
        /\ SyncStep(AfterUserErrors(SyncLogged(sync, WithUserErrors(call(FALSE)))))
     \/ /\ CanFail /\ Fail
        /\ IsSome(inventoryItem.onHand)
        /\ UNCHANGED inventoryItem
        /\ SyncStep(AfterUserErrors(SyncLogged(sync, WithUserErrors(call(FALSE)))))
     \/ /\ CanFail /\ Fail
        /\ UNCHANGED inventoryItem
        /\ SyncStep(next)
     \/ /\ CanFail /\ Fail
        /\ UNCHANGED inventoryItem
        /\ SyncStep(SyncThrown(SyncLogged(sync, call(FALSE))))

\* await shopifyService.shopifyGraphqlRequest(finalCheckQuery, {itemId}):
\* finalLevels are the levels of the item, or [] when the response holds none.
FinalCheck ==
  LET call(ok) == SyncCall("getInventoryLevels", None, NoNum, ok)
      verified(levels) ==
        SyncLogged([sync EXCEPT
          !.pc = IF NeedsCorrection(levels) THEN "correct" ELSE "updateOne",
          !.finalLevels = levels,
          !.bunjangWarehouseCorrect = BunjangWarehouseCorrect(levels)], call(TRUE))
  IN
  /\ sync.pc = "finalCheck"
  /\ SyncFrame
  /\ UNCHANGED <<mappings, inventoryItem>>
  /\ \/ /\ NoFail
        /\ SyncStep(verified(InventoryLevels))
     \/ /\ CanFail /\ Fail
        /\ SyncStep(verified(NoLevels))
     \/ /\ CanFail /\ Fail
        /\ SyncStep(SyncThrown(SyncLogged(sync, call(FALSE))))

\* await shopifyService.updateInventoryLevel(inventoryItemId, BUNJANG_WAREHOUSE_GID, 1)
UpdateInventoryLevel ==
  LET call(ok) == SyncCall("updateInventoryLevel", Some(BUNJANG_WAREHOUSE_GID), 1, ok) IN
  /\ sync.pc = "correct"
  /\ SyncFrame
  /\ UNCHANGED mappings
  /\ \/ /\ NoFail
        /\ inventoryItem' = [inventoryItem EXCEPT !.onHand = Some(1)]
        /\ SyncStep(SyncLogged([sync EXCEPT !.pc = "updateOne"], call(TRUE)))
     \/ /\ CanFail /\ Fail
        /\ UNCHANGED inventoryItem
        /\ SyncStep(SyncThrown(SyncLogged(sync, call(FALSE))))

\* await SyncedProduct.updateOne({bunjangPid}, {$set: {bunjangQuantity:
\* normalizedQuantity, lastInventorySyncAt: new Date()}}) and return true
UpdateOne ==
  LET call(ok) == SyncCall("updateOne", None, NormalizedQuantity(sync.bunjangQuantity), ok)
  IN
  /\ sync.pc = "updateOne"
  /\ SyncFrame
  /\ UNCHANGED inventoryItem
  /\ \/ /\ NoFail
        /\ mappings' = {IF m.bunjangPid = sync.bunjangPid
                        THEN [m EXCEPT !.bunjangQuantity =
                                Some(NormalizedQuantity(sync.bunjangQuantity)),
                                       !.lastInventorySyncAt = Some("now")]
                        ELSE m : m \in mappings}
        /\ SyncStep(SyncReturned(SyncLogged(sync, call(TRUE)), TRUE))
     \/ /\ CanFail /\ Fail
        /\ UNCHANGED mappings
        /\ SyncStep(SyncThrown(SyncLogged(sync, call(FALSE))))

SyncInventoryStep ==
  \/ SyncFindOne
  \/ GetProductVariants
  \/ EnableInventoryTracking
  \/ ActivateInventoryAtLocation
  \/ SetOnHandQuantities
  \/ FinalCheck
  \/ UpdateInventoryLevel
  \/ UpdateOne

---------------------------------------------------------------------------
(* batchSyncInventory, checkAndSyncBunjangInventory and                      *)
(* deleteProductIfOutOfStock (inventoryService.js): callers of the sync.     *)

\* const results = { success: 0, failed: 0, deleted: 0, details: [] }
NoResults == [success |-> 0, failed |-> 0, deleted |-> 0, details |-> <<>>]

IdleSvc == [pc |-> "idle", fn |-> "none", bunjangPid |-> 0, inventoryUpdates |-> <<>>,
            syncedProducts |-> <<>>,
            index |-> 0, results |-> NoResults, result |-> "none", log |-> <<>>]

\* syncBunjangInventoryToShopify(pid, quantity) is called by a function that
\* awaits it.
CallSync(pid, quantity) ==
  [IdleSync EXCEPT !.pc = "findOne", !.bunjangPid = pid, !.bunjangQuantity = quantity]

\* The awaited sync has settled and its caller has taken the outcome.
SyncTaken == [sync EXCEPT !.pc = "idle"]

\* The sync a caller awaited, as it ran: its arguments, its requests, its outcome.
SyncRun ==
  [op |-> "syncBunjangInventoryToShopify", pid |-> sync.bunjangPid,
   quantity |-> sync.bunjangQuantity, result |-> sync.result, calls |-> sync.log]

\* The product-detail fetch of checkAndSyncBunjangInventory.
DetailsRun(pid, result) ==
  [op |-> "getBunjangProductDetails", pid |-> pid, quantity |-> 0,
   result |-> result, calls |-> <<>>]

SvcLogged(c, run) == [c EXCEPT !.log = Append(@, run)]
SvcReturned(c, value) == [c EXCEPT !.pc = "done", !.result = value]
\* catch (error) { logger.error(...); throw error; }
SvcThrown(c) == [c EXCEPT !.pc = "done", !.result = "throw"]

\* The service functions touch the store and the storefront through the sync.
ServiceFrame ==
  UNCHANGED <<shopifyOrder, catalog, mappings, orderTags, orderMeta, bunjangOrders,
              inv, inventoryItem, remoteOrders, statusSync, listings, scheduler>>

\* No function is running: the next call comes from outside.
Quiet ==
  /\ svc.pc \in {"idle", "done"}
  /\ sync.pc \in {"idle", "done"}
  /\ hook.pc \in {"idle", "done"}

\* The lists of updates a batch is called with.
Pids == {PidOf(p) : p \in Products}
InventoryUpdates ==
  UNION {[1..n -> [pid : Pids, quantity : {MaxQty}]] : n \in 0..MaxUpdates}

\* results.success++; results.details.push({pid, success: true, quantity: 1})
BatchSucceeded(results, pid) ==
  [results EXCEPT !.success = @ + 1,
                  !.details = Append(@, [pid |-> pid, success |-> TRUE,
                                         quantity |-> Some(1), error |-> FALSE])]

\* results.failed++; results.details.push({pid, success: false, quantity: 1})
BatchFailed(results, pid) ==
  [results EXCEPT !.failed = @ + 1,
                  !.details = Append(@, [pid |-> pid, success |-> FALSE,
                                         quantity |-> Some(1), error |-> FALSE])]

\* catch (error): results.failed++;
\* results.details.push({pid, success: false, error: error.message})
BatchCaught(results, pid) ==
  [results EXCEPT !.failed = @ + 1,
                  !.details = Append(@, [pid |-> pid, success |-> FALSE,
                                         quantity |-> None, error |-> TRUE])]

\* The results after the sync of one update has settled.
BatchTally(results, pid, outcome) ==
  CASE outcome = "true" -> BatchSucceeded(results, pid)
    [] outcome = "false" -> BatchFailed(results, pid)
    [] OTHER -> BatchCaught(results, pid)

\* BatchNext with a thrown sync leaving the loop.
BatchNext_Abort(c, outcome) ==
  IF outcome # "throw" /\ c.index < Len(c.inventoryUpdates)
  THEN [c EXCEPT !.pc = "sync", !.index = @ + 1]
  ELSE SvcReturned(c, "results")

\* for (const update of inventoryUpdates): the next update, or the return.
BatchNext(c, outcome) ==
  IF c.index < Len(c.inventoryUpdates)
  THEN [c EXCEPT !.pc = "sync", !.index = @ + 1]
  ELSE SvcReturned(c, "results")

\* batchSyncInventory(inventoryUpdates) is called: the first update's sync is
\* awaited, or the list is empty and the results are returned.
StartBatch ==
  /\ Quiet
  /\ \E inventoryUpdates \in InventoryUpdates :
       LET c == BatchNext([IdleSvc EXCEPT !.fn = "batchSyncInventory",
                                          !.inventoryUpdates = inventoryUpdates],
                          "none")
       IN /\ svc' = c
          /\ sync' = IF c.pc = "sync" THEN CallSync(inventoryUpdates[1].pid, 1)
                     ELSE sync
  /\ NoFail
  /\ ServiceFrame
  /\ UNCHANGED hook

\* const result = await syncBunjangInventoryToShopify(update.pid, 1) settles.
BatchSyncSettles ==
  LET pid == svc.inventoryUpdates[svc.index].pid
      c == BatchNext(SvcLogged([svc EXCEPT !.results =
                                  BatchTally(@, pid, sync.result)], SyncRun),
                     sync.result)
  IN
  /\ svc.fn = "batchSyncInventory"
  /\ svc.pc = "sync"
  /\ sync.pc = "done"
  /\ svc' = c
  /\ sync' = IF c.pc = "sync" THEN CallSync(c.inventoryUpdates[c.index].pid, 1)
             ELSE SyncTaken
  /\ NoFail
  /\ ServiceFrame
  /\ UNCHANGED hook

\* checkAndSyncBunjangInventory(bunjangPid) is called.
CheckCalled(pid) ==
  [IdleSvc EXCEPT !.fn = "checkAndSyncBunjangInventory", !.pc = "getDetails",
                  !.bunjangPid = pid]

StartCheck ==
  /\ Quiet
  /\ \E pid \in Pids : svc' = CheckCalled(pid)
  /\ NoFail
  /\ ServiceFrame
  /\ UNCHANGED <<sync, hook>>

\* const productDetails = await bunjangService.getBunjangProductDetails(bunjangPid):
\* the details, or nothing (return -1), or the request throws.
CheckGetDetails ==
  /\ svc.fn = "checkAndSyncBunjangInventory"
  /\ svc.pc = "getDetails"
  /\ ServiceFrame
  /\ UNCHANGED hook
  /\ \/ /\ NoFail
        /\ svc' = SvcLogged([svc EXCEPT !.pc = "sync"],
                            DetailsRun(svc.bunjangPid, "details"))
        /\ sync' = CallSync(svc.bunjangPid, 1)
     \/ /\ NoFail
        /\ svc' = SvcReturned(SvcLogged(svc, DetailsRun(svc.bunjangPid, "null")), "-1")
        /\ UNCHANGED sync
     \/ /\ CanFail /\ Fail
        /\ svc' = SvcThrown(SvcLogged(svc, DetailsRun(svc.bunjangPid, "throw")))
        /\ UNCHANGED sync

\* await syncBunjangInventoryToShopify(bunjangPid, 1) settles; return 1
CheckSyncSettles ==
  /\ svc.fn = "checkAndSyncBunjangInventory"
  /\ svc.pc = "sync"
  /\ sync.pc = "done"
  /\ svc' = IF sync.result = "throw" THEN SvcThrown(SvcLogged(svc, SyncRun))
            ELSE SvcReturned(SvcLogged(svc, SyncRun), "1")
  /\ sync' = SyncTaken
  /\ NoFail
  /\ ServiceFrame
  /\ UNCHANGED hook

\* deleteProductIfOutOfStock(bunjangPid, shopifyGid) is called: the sync of
\* quantity 1 is awaited.
OutOfStockCalled(pid) ==
  [IdleSvc EXCEPT !.fn = "deleteProductIfOutOfStock", !.pc = "sync",
                  !.bunjangPid = pid]

StartOutOfStock ==
  /\ Quiet
  /\ \E pid \in Pids :
       /\ svc' = OutOfStockCalled(pid)
       /\ sync' = CallSync(pid, 1)
  /\ NoFail
  /\ ServiceFrame
  /\ UNCHANGED hook

\* await syncBunjangInventoryToShopify(bunjangPid, 1) settles; return false
OutOfStockSyncSettles ==
  /\ svc.fn = "deleteProductIfOutOfStock"
  /\ svc.pc = "sync"
  /\ sync.pc = "done"
  /\ svc' = IF sync.result = "throw" THEN SvcThrown(SvcLogged(svc, SyncRun))
            ELSE SvcReturned(SvcLogged(svc, SyncRun), "false")
  /\ sync' = SyncTaken
  /\ NoFail
  /\ ServiceFrame
  /\ UNCHANGED hook

\* const results = { totalProducts: 0, synced: 0, failed: 0, skipped: 0,
\* deleted: 0, outOfStock: [] } of performFullInventorySync
NoFullResults == [totalProducts |-> 0, synced |-> 0, failed |-> 0, skipped |-> 0,
                  deleted |-> 0, outOfStock |-> <<>>]

\* SelectedProducts without the filter on syncStatus.
SelectedProducts_All == {m.bunjangPid : m \in mappings}

\* SyncedProduct.find({ syncStatus: 'SYNCED', bunjangPid: { $exists: true } }):
\* the listing ids of the documents found (every mapping holds a bunjangPid;
\* the limit of 1000 is above the number of mappings the store holds here)
SelectedProducts == {m.bunjangPid : m \in {d \in mappings : d.syncStatus = "SYNCED"}}

\* The orders the store can return a set of documents in.
Orderings(S) ==
  {order \in [1..Cardinality(S) -> S] :
     \A i, j \in 1..Cardinality(S) : order[i] = order[j] => i = j}

\* await new Promise(resolve => setTimeout(resolve, 1000)), as the function ran it
PauseRun ==
  [op |-> "pause", pid |-> 0, quantity |-> 0, result |-> "none", calls |-> <<>>]

\* if (success) results.synced++; else results.skipped++;
\* catch (error): results.failed++
FullTally(results, outcome) ==
  CASE outcome = "true" -> [results EXCEPT !.synced = @ + 1]
    [] outcome = "false" -> [results EXCEPT !.skipped = @ + 1]
    [] OTHER -> [results EXCEPT !.failed = @ + 1]

\* if (results.synced % 2 === 0): the pause follows the product
PauseDue(results) == results.synced % 2 = 0

\* for (const product of syncedProducts): the next product, or return results
FullNext(c) ==
  IF c.index < Len(c.syncedProducts)
  THEN [c EXCEPT !.pc = "sync", !.index = @ + 1]
  ELSE SvcReturned(c, "results")

\* The sync the function awaits next, if it goes on to a product.
FullNextSync(c, otherwise) ==
  IF c.pc = "sync" THEN CallSync(c.syncedProducts[c.index], 1) ELSE otherwise

\* performFullInventorySync(jobId) is called.
StartFullSync ==
  /\ Quiet
  /\ svc' = [IdleSvc EXCEPT !.fn = "performFullInventorySync", !.pc = "find",
                            !.results = NoFullResults]
  /\ NoFail
  /\ ServiceFrame
  /\ UNCHANGED <<sync, hook>>

\* const syncedProducts = await SyncedProduct.find({...}).limit(1000).lean();
\* results.totalProducts = syncedProducts.length; a rejected find is rethrown
FullSyncFind ==
  /\ svc.fn = "performFullInventorySync"
  /\ svc.pc = "find"
  /\ ServiceFrame
  /\ UNCHANGED hook
  /\ \/ /\ NoFail
        /\ \E syncedProducts \in Orderings(SelectedProducts) :
             LET c == FullNext([svc EXCEPT
                         !.syncedProducts = syncedProducts,
                         !.results.totalProducts = Len(syncedProducts)])
             IN /\ svc' = c
                /\ sync' = FullNextSync(c, sync)
     \/ /\ CanFail /\ Fail
        /\ svc' = SvcThrown(svc)
        /\ UNCHANGED sync

\* const success = await syncBunjangInventoryToShopify(product.bunjangPid, 1)
\* settles: the tally, then the pause when it is due, or the next product.
FullSyncSettles ==
  LET tallied == SvcLogged([svc EXCEPT !.results = FullTally(@, sync.result)],
                           SyncRun)
      c == IF PauseDue(tallied.results) THEN [tallied EXCEPT !.pc = "pause"]
           ELSE FullNext(tallied)
  IN
  /\ svc.fn = "performFullInventorySync"
  /\ svc.pc = "sync"
  /\ sync.pc = "done"
  /\ svc' = c
  /\ sync' = FullNextSync(c, SyncTaken)
  /\ NoFail
  /\ ServiceFrame
  /\ UNCHANGED hook

\* await new Promise(resolve => setTimeout(resolve, 1000)) is over.
FullSyncPause ==
  LET c == FullNext(SvcLogged(svc, PauseRun)) IN
  /\ svc.fn = "performFullInventorySync"
  /\ svc.pc = "pause"
  /\ svc' = c
  /\ sync' = FullNextSync(c, sync)
  /\ NoFail
  /\ ServiceFrame
  /\ UNCHANGED hook

FullSyncStep == FullSyncFind \/ FullSyncSettles \/ FullSyncPause

\* The steps of the functions the webhook handlers await.
CalleeStep ==
  \/ CheckGetDetails
  \/ CheckSyncSettles
  \/ OutOfStockSyncSettles

ServiceStep == BatchSyncSettles \/ CalleeStep

---------------------------------------------------------------------------
(* webhook.routes.js: the handlers of the storefront's webhooks, one event   *)
(* after the other.                                                           *)

HookKinds == {"orders/create", "orders/updated", "orders/cancelled",
              "products/delete"}

IdleHook == [pc |-> "idle", kind |-> "none", event |-> 0, hasBody |-> FALSE,
             order |-> NoOrder, cancelled_at |-> FALSE, productId |-> 0,
             item |-> 0, bunjangPid |-> 0, currentStock |-> 0,
             bunjangOrderResult |-> "none", failed |-> {}, status |-> 0,
             log |-> <<>>]

\* One awaited call of a handler, for a line item or for none.
HookCall(op, item, ok) == [op |-> op, item |-> item, ok |-> ok]
HookLogged(h, call) == [h EXCEPT !.log = Append(@, call)]

\* res.status(200).json({ status: 'success' })
Responded(h, status) == [h EXCEPT !.pc = "done", !.status = status]

\* catch (error) of the handler: res.status(500).json(...)
ServerError(h) == Responded(h, 500)

\* for (const lineItem of order.line_items || []): the next line item, or
\* the acknowledgment after the loop.
HookNextItem(h) ==
  IF h.item < Len(h.order.line_items)
  THEN [h EXCEPT !.pc = "findOne", !.item = @ + 1, !.bunjangPid = 0,
                 !.currentStock = 0]
  ELSE Responded(h, 200)

\* HookItemFailed with the error of the line item leaving the handler.
HookItemFailed_Escapes(h) == ServerError([h EXCEPT !.failed = @ \cup {h.item}])

\* catch (itemError) { logger.error(...) }: the loop goes on.
HookItemFailed(h) == HookNextItem([h EXCEPT !.failed = @ \cup {h.item}])

\* The awaited service function has settled and the handler has taken the
\* outcome.
SvcTaken == [svc EXCEPT !.pc = "idle"]

\* What the handlers leave alone; the store, the sync and the service
\* function are written by the steps that say so.
HookFrame ==
  UNCHANGED <<shopifyOrder, catalog, orderTags, orderMeta, bunjangOrders,
              inventoryItem, remoteOrders, statusSync, listings, scheduler>>

\* The handler an event starts, with the body of the request.
Received(kind, hasBody) ==
  [IdleHook EXCEPT !.pc = "received", !.kind = kind, !.event = hook.event + 1,
                   !.hasBody = hasBody]

\* No handler and no function is running, and an event can still come.
CanReceive ==
  /\ Quiet
  /\ \A p \in Invocations : inv[p].pc \in {"idle", "done"}
  /\ hook.event < MaxEvents

\* router.post('/orders/create'): without a body the first statement throws
\* and the handler answers 500; else processShopifyOrderForBunjang is
\* awaited.
OrderCreated ==
  /\ CanReceive
  /\ hook.event + 1 \in Invocations
  /\ inv[hook.event + 1].pc = "idle"
  /\ HookFrame
  /\ UNCHANGED <<mappings, sync, svc>>
  /\ NoFail
  /\ \/ /\ hook' = ServerError(Received("orders/create", FALSE))
        /\ UNCHANGED inv
     \/ \E order \in Deliveries :
          /\ hook' = [Received("orders/create", TRUE) EXCEPT
                        !.pc = "reconcile", !.order = order]
          /\ inv' = [inv EXCEPT ![hook.event + 1] = Entered(@, order)]

\* await orderService.processShopifyOrderForBunjang(order, ...) settles: the
\* result is logged, an error is caught and logged; the loop starts.
ReconcileSettles ==
  LET r == inv[hook.event] IN
  /\ hook.kind = "orders/create"
  /\ hook.pc = "reconcile"
  /\ r.pc = "done"
  /\ hook' = HookNextItem(HookLogged([hook EXCEPT !.bunjangOrderResult =
                 IF r.result.kind = "throw" THEN "throw"
                 ELSE IF r.result.success THEN "success" ELSE "failure"],
               HookCall("processShopifyOrderForBunjang", 0,
                        r.result.kind # "throw")))
  /\ NoFail
  /\ HookFrame
  /\ UNCHANGED <<mappings, inv, sync, svc>>

\* router.post('/orders/updated') with cancelled_at or without, and
\* router.post('/orders/cancelled'): the loop that restores the inventory.
OrderCancelled ==
  /\ CanReceive
  /\ HookFrame
  /\ UNCHANGED <<mappings, inv, sync, svc>>
  /\ NoFail
  /\ \/ \E kind \in {"orders/updated", "orders/cancelled"} :
          hook' = ServerError(Received(kind, FALSE))
     \/ hook' = Responded([Received("orders/updated", TRUE) EXCEPT
                             !.order = shopifyOrder], 200)
     \/ \E kind \in {"orders/updated", "orders/cancelled"} :
          hook' = HookNextItem([Received(kind, TRUE) EXCEPT
                                  !.order = shopifyOrder, !.cancelled_at = TRUE])

\* const syncedProduct = await SyncedProduct.findOne({$or: [...]}).lean():
\* with a mapping that holds a pid, checkAndSyncBunjangInventory is awaited.
HookFindOne ==
  LET productId == hook.order.line_items[hook.item].product_id
      found == FindByProduct(mappings, productId)
      call(ok) == HookCall("findOne", hook.item, ok)
  IN
  /\ hook.pc = "findOne"
  /\ HookFrame
  /\ UNCHANGED <<mappings, inv, sync>>
  /\ \/ /\ NoFail
        /\ found = {}
        /\ hook' = HookNextItem(HookLogged(hook, call(TRUE)))
        /\ UNCHANGED svc
     \/ /\ NoFail
        /\ \E syncedProduct \in found :
             /\ hook' = HookLogged([hook EXCEPT !.pc = "check",
                                      !.bunjangPid = syncedProduct.bunjangPid],
                                   call(TRUE))
             /\ svc' = CheckCalled(syncedProduct.bunjangPid)
     \/ /\ CanFail /\ Fail
        /\ hook' = HookItemFailed(HookLogged(hook, call(FALSE)))
        /\ UNCHANGED svc

\* Math.max(0, currentStock - lineItem.quantity)
NewStock(currentStock, quantity) ==
  IF currentStock - quantity > 0 THEN currentStock - quantity ELSE 0

\* const currentStock = await inventoryService.checkAndSyncBunjangInventory(pid)
\* settles.  The order-created handler goes on when currentStock >= 0: to
\* deleteProductIfOutOfStock when the new stock is 0, else to the sync of the
\* new stock.  The other handlers sync currentStock + lineItem.quantity.
HookCheckSettles ==
  LET quantity == hook.order.line_items[hook.item].quantity
      currentStock == IF svc.result = "1" THEN 1 ELSE 0 - 1
      h == HookLogged([hook EXCEPT !.currentStock = currentStock],
                      HookCall("checkAndSyncBunjangInventory", hook.item,
                               svc.result # "throw"))
  IN
  /\ hook.pc = "check"
  /\ svc.pc = "done"
  /\ NoFail
  /\ HookFrame
  /\ UNCHANGED <<mappings, inv>>
  /\ IF svc.result = "throw"
     THEN /\ hook' = HookItemFailed([h EXCEPT !.currentStock = 0])
          /\ svc' = SvcTaken
          /\ UNCHANGED sync
     ELSE IF hook.kind # "orders/create"
     THEN /\ hook' = [h EXCEPT !.pc = "sync"]
          /\ svc' = SvcTaken
          /\ sync' = CallSync(hook.bunjangPid, currentStock + quantity)
     ELSE IF currentStock < 0
     THEN /\ hook' = HookNextItem(h)
          /\ svc' = SvcTaken
          /\ UNCHANGED sync
     ELSE IF NewStock(currentStock, quantity) = 0
     THEN /\ hook' = [h EXCEPT !.pc = "outOfStock"]
          /\ svc' = OutOfStockCalled(hook.bunjangPid)
          /\ sync' = CallSync(hook.bunjangPid, 1)
     ELSE /\ hook' = [h EXCEPT !.pc = "sync"]
          /\ svc' = SvcTaken
          /\ sync' = CallSync(hook.bunjangPid, NewStock(currentStock, quantity))

\* await inventoryService.deleteProductIfOutOfStock(pid, gid) settles: its
\* error is caught and logged (deleteError).
HookOutOfStockSettles ==
  /\ hook.pc = "outOfStock"
  /\ svc.pc = "done"
  /\ hook' = HookNextItem(HookLogged(hook, HookCall("deleteProductIfOutOfStock",
                                                    hook.item, svc.result # "throw")))
  /\ svc' = SvcTaken
  /\ NoFail
  /\ HookFrame
  /\ UNCHANGED <<mappings, inv, sync>>

\* await inventoryService.syncBunjangInventoryToShopify(pid, stock) settles.
HookSyncSettles ==
  LET h == HookLogged(hook, HookCall("syncBunjangInventoryToShopify", hook.item,
                                     sync.result # "throw"))
  IN
  /\ hook.pc = "sync"
  /\ sync.pc = "done"
  /\ hook' = IF sync.result = "throw" THEN HookItemFailed(h) ELSE HookNextItem(h)
  /\ sync' = SyncTaken
  /\ NoFail
  /\ HookFrame
  /\ UNCHANGED <<mappings, inv, svc>>

\* router.post('/products/delete'): without a body the handler answers 500.
ProductDeleted ==
  /\ CanReceive
  /\ HookFrame
  /\ UNCHANGED <<mappings, inv, sync, svc>>
  /\ NoFail
  /\ \/ hook' = ServerError(Received("products/delete", FALSE))
     \/ \E productId \in Products :
          hook' = [Received("products/delete", TRUE) EXCEPT
                     !.pc = "deleteOne", !.productId = productId]

\* Matching with every document matching the filter.
Matching_Any(store, productId) == store

\* The documents that match { shopifyGid: `gid://shopify/Product/${product.id}` }
Matching(store, productId) ==
  {m \in store : m.shopifyGid = Some(ProductGid(productId))}

\* await SyncedProduct.deleteOne({ shopifyGid: productGid })
HookDeleteOne ==
  LET matching == Matching(mappings, hook.productId)
      call(ok) == HookCall("deleteOne", 0, ok)
  IN
  /\ hook.pc = "deleteOne"
  /\ HookFrame
  /\ UNCHANGED <<inv, sync, svc>>
  /\ \/ /\ NoFail
        /\ \/ matching = {} /\ UNCHANGED mappings
           \/ \E m \in matching : mappings' = mappings \ {m}
        /\ hook' = Responded(HookLogged(hook, call(TRUE)), 200)
     \/ /\ CanFail /\ Fail
        /\ UNCHANGED mappings
        /\ hook' = ServerError(HookLogged(hook, call(FALSE)))

HookStep ==
  \/ ReconcileSettles
  \/ HookFindOne
  \/ HookCheckSettles
  \/ HookOutOfStockSettles
  \/ HookSyncSettles
  \/ HookDeleteOne

---------------------------------------------------------------------------
(* syncBunjangOrderStatuses and updateShopifyOrderFromBunjangStatus         *)
(* (orderService.js).  A Date is its number of milliseconds since the epoch. *)

\* 1000 * 60 * 60 * 24
MsPerDay == 1000 * 60 * 60 * 24

\* if (diffDays > 15)
MaxRangeDays == 15

\* new Date(d).toISOString(): the date part and the time-of-day part
ToISOString(ms) == <<ms \div MsPerDay, ms % MsPerDay>>

\* new Date(isoString), in milliseconds
ParseISO(iso) == (iso[1] * MsPerDay) + iso[2]

\* DiffDays with the quotient cut to whole days.
DiffDays_WholeDays(startDateUTC, endDateUTC) ==
  [num |-> (ParseISO(endDateUTC) - ParseISO(startDateUTC)) \div MsPerDay,
   den |-> 1]

\* (new Date(endDateUTC) - new Date(startDateUTC)) / (1000 * 60 * 60 * 24),
\* the quotient kept as numerator and denominator
DiffDays(startDateUTC, endDateUTC) ==
  [num |-> ParseISO(endDateUTC) - ParseISO(startDateUTC), den |-> MsPerDay]

\* diffDays > days
ExceedsDays(diffDays, days) == diffDays.num > days * diffDays.den

\* The statuses an order item can report; the last one has no case in the switch.
ShippingStatuses == {"SHIP_READY", "IN_TRANSIT", "DELIVERY_COMPLETED"}
CancelStatuses == {"CANCEL_REQUESTED_BEFORE_SHIPPING", "REFUNDED",
                   "RETURN_REQUESTED", "RETURNED"}
Statuses == ShippingStatuses \cup CancelStatuses
              \cup {"PURCHASE_CONFIRM", "PAYMENT_RECEIVED"}

\* `-${status}`
DashStatus(status) ==
  CASE status = "CANCEL_REQUESTED_BEFORE_SHIPPING" -> "-CANCEL_REQUESTED_BEFORE_SHIPPING"
    [] status = "REFUNDED" -> "-REFUNDED"
    [] status = "RETURN_REQUESTED" -> "-RETURN_REQUESTED"
    [] OTHER -> "-RETURNED"

\* new Date().toISOString() during the run-th sync
Now(run) == <<"now">> \o DecStr(run)

\* StatusTags with the time of the sync in the status tag.
StatusTags_Timestamped(bunjangOrderId, status, run) ==
  <<Tag("BunjangStatus-", run, status),
    Tag("BunjangOrder-", bunjangOrderId, DashStatus(status))>>

\* tags: [`BunjangStatus-${status}`, `BunjangOrder-${bunjangOrderId}-${status}`]
StatusTags(bunjangOrderId, status, run) ==
  <<Tag("BunjangStatus-", NoNum, status),
    Tag("BunjangOrder-", bunjangOrderId, DashStatus(status))>>

\* The metafields of the PURCHASE_CONFIRM case.
ConfirmMetafields(orderItem, run) ==
  <<[key |-> "purchase_confirmed", value |-> <<"true">>],
    [key |-> "purchase_confirmed_at",
     value |-> IF IsSome(orderItem.purchaseConfirmedAt)
               THEN Val(orderItem.purchaseConfirmedAt) ELSE Now(run)]>>

\* StampMetafields without the status.
StampMetafields_TimeOnly(status, run) ==
  <<[key |-> "last_status_sync", value |-> Now(run)]>>

\* The metafields written after the switch, for every item.
StampMetafields(status, run) ==
  <<[key |-> "last_status_sync", value |-> Now(run)],
    [key |-> "last_bunjang_status", value |-> <<status>>]>>

NoPage == [data |-> <<>>, totalPages |-> 0]
IdleStatusSync ==
  [pc |-> "idle", run |-> 0, startDate |-> 0, endDate |-> 0,
   startDateUTC |-> ToISOString(0),
   endDateUTC |-> ToISOString(0), page |-> 0, ordersResponse |-> NoPage,
   order |-> 0, orderItem |-> 0, syncedCount |-> 0, errorCount |-> 0,
   result |-> "none", log |-> <<>>, finals |-> <<>>]

\* One request of the status sync.
StatusCall(op, arg, tags, metafields, ok) ==
  [op |-> op, arg |-> arg, tags |-> tags, metafields |-> metafields, ok |-> ok,
   missing |-> FALSE]

\* The same, answered with no response or with a response without data.
Missing(call) == [call EXCEPT !.missing = TRUE]

StatusLogged(s, call) == [s EXCEPT !.log = Append(@, call)]

\* The sync ends: what it leaves on the storefront order is kept for the
\* comparison of one run with the next.
StatusEnded(s, result, tags, meta) ==
  [s EXCEPT !.pc = "done", !.result = result,
            !.finals = Append(@, [tags |-> tags, meta |-> meta, result |-> result,
                                   span |-> s.endDate - s.startDate,
                                   clean |-> \A j \in 1..Len(s.log) : s.log[j].ok])]

\* PageEnd with hasMore false after every page.
PageEnd_OnePage(s, tags, meta) ==
  StatusEnded([s EXCEPT !.page = @ + 1], "success", tags, meta)

\* hasMore = page < (ordersResponse.totalPages - 1); page++
PageEnd(s, tags, meta) ==
  IF s.page < s.ordersResponse.totalPages - 1
  THEN [s EXCEPT !.pc = "getOrders", !.page = @ + 1]
  ELSE StatusEnded([s EXCEPT !.page = @ + 1], "success", tags, meta)

\* The next order of ordersResponse.data, or the end of the page.
NextOrder(s, tags, meta) ==
  IF s.order < Len(s.ordersResponse.data)
  THEN [s EXCEPT !.pc = "search", !.order = @ + 1, !.orderItem = 0]
  ELSE PageEnd(s, tags, meta)

\* updateShopifyOrderFromBunjangStatus returned: syncedCount++
OrderSynced(s, tags, meta) ==
  NextOrder([s EXCEPT !.syncedCount = @ + 1], tags, meta)

\* OrderFailed with the error leaving the loops.
OrderFailed_Abort(s, tags, meta) ==
  StatusEnded([s EXCEPT !.errorCount = @ + 1], "success", tags, meta)

\* updateShopifyOrderFromBunjangStatus threw: errorCount++
OrderFailed(s, tags, meta) ==
  NextOrder([s EXCEPT !.errorCount = @ + 1], tags, meta)

\* The next item of bunjangOrder.orderItems, or the end of the order.
NextOrderItem(s, tags, meta) ==
  IF s.orderItem < Len(s.ordersResponse.data[s.order].orderItems)
  THEN [s EXCEPT !.pc = "itemAction", !.orderItem = @ + 1]
  ELSE OrderSynced(s, tags, meta)

CurrentOrder == statusSync.ordersResponse.data[statusSync.order]
CurrentOrderItem == CurrentOrder.orderItems[statusSync.orderItem]

StatusStep(s) == statusSync' = s

\* The status sync writes the tags and the metafields of the storefront order.
StatusFrame ==
  UNCHANGED <<shopifyOrder, catalog, mappings, bunjangOrders, inv, inventoryItem,
              sync, remoteOrders, listings, scheduler, svc, hook>>

\* The windows asked for: they start at noon of the second day and span a
\* day, the maximum, or the maximum and a millisecond or a second more.
StartOfWindow == MsPerDay + (MsPerDay \div 2)
Spans == {MsPerDay, MaxRangeDays * MsPerDay, (MaxRangeDays * MsPerDay) + 1,
          (MaxRangeDays * MsPerDay) + 1000}

\* syncBunjangOrderStatuses(startDate, endDate) is called (by the scheduler's
\* worker, one job after the other): the dates are converted and the range
\* is validated.
StartStatusSync ==
  /\ statusSync.pc \in {"idle", "done"}
  /\ statusSync.run < NumInvocations
  /\ \E span \in Spans :
       LET startDateUTC == ToISOString(StartOfWindow)
           endDateUTC == ToISOString(StartOfWindow + span)
           s == [IdleStatusSync EXCEPT
                   !.run = statusSync.run + 1, !.finals = statusSync.finals,
                   !.startDate = StartOfWindow, !.endDate = StartOfWindow + span,
                   !.startDateUTC = startDateUTC, !.endDateUTC = endDateUTC]
       IN StatusStep(IF ExceedsDays(DiffDays(startDateUTC, endDateUTC), MaxRangeDays)
                     THEN StatusEnded(s, "ValidationError", orderTags, orderMeta)
                     ELSE [s EXCEPT !.pc = "getOrders"])
  /\ NoFail
  /\ StatusFrame
  /\ UNCHANGED <<orderTags, orderMeta>>

\* What the marketplace answers for a page of the window.
OrdersPage(page) ==
  [data |-> IF page < Len(remoteOrders) THEN remoteOrders[page + 1] ELSE <<>>,
   totalPages |-> Len(remoteOrders)]

\* await bunjangService.getBunjangOrders({statusUpdateStartDate, statusUpdateEndDate, page, size})
GetBunjangOrders ==
  LET s == statusSync
      call(ok) == StatusCall("getBunjangOrders", s.page, <<>>, <<>>, ok)
  IN
  /\ s.pc = "getOrders"
  /\ StatusFrame
  /\ UNCHANGED <<orderTags, orderMeta>>
  /\ \/ /\ NoFail
        /\ StatusStep(NextOrder(StatusLogged([s EXCEPT
                                  !.ordersResponse = OrdersPage(s.page),
                                  !.order = 0, !.orderItem = 0], call(TRUE)),
                                orderTags, orderMeta))
     \/ /\ CanFail /\ Fail
        /\ StatusStep(StatusEnded(StatusLogged(s, Missing(call(FALSE))), "success",
                                  orderTags, orderMeta))
     \/ /\ CanFail /\ Fail
        /\ StatusStep(StatusEnded(StatusLogged(s, call(FALSE)), "throw",
                                  orderTags, orderMeta))

\* OrderFoundByTag that takes the first storefront order with any tag.
OrderFoundByTag_Any(bunjangOrderId) == Len(orderTags) > 0

\* orders(first: 1, query: `tag:"BunjangOrder-${bunjangOrderId}"`)
OrderFoundByTag(bunjangOrderId) ==
  \E j \in 1..Len(orderTags) : orderTags[j] = BunjangOrderTag(bunjangOrderId)

\* await shopifyService.shopifyGraphqlRequest(query, {query: searchQuery})
SearchOrder ==
  LET s == statusSync
      call(ok) == StatusCall("findOrderByBunjangId", CurrentOrder.id, <<>>, <<>>, ok)
  IN
  /\ s.pc = "search"
  /\ StatusFrame
  /\ UNCHANGED <<orderTags, orderMeta>>
  /\ \/ /\ NoFail
        /\ StatusStep(IF OrderFoundByTag(CurrentOrder.id)
                      THEN NextOrderItem(StatusLogged(s, call(TRUE)), orderTags, orderMeta)
                      ELSE OrderSynced(StatusLogged(s, call(TRUE)), orderTags, orderMeta))
     \/ /\ CanFail /\ Fail
        /\ StatusStep(OrderFailed(StatusLogged(s, call(FALSE)), orderTags, orderMeta))

\* switch (status): the fulfillment stub, the confirmation metafields, the
\* status tags, or nothing.
ItemAction ==
  LET s == statusSync
      status == CurrentOrderItem.status
      tags == IF status \in CancelStatuses
              THEN StatusTags(CurrentOrder.id, status, s.run) ELSE <<>>
      metafields == IF status = "PURCHASE_CONFIRM"
                    THEN ConfirmMetafields(CurrentOrderItem, s.run) ELSE <<>>
      call(ok) == StatusCall("updateOrder", CurrentOrder.id, tags, metafields, ok)
  IN
  /\ s.pc = "itemAction"
  /\ StatusFrame
  /\ \/ /\ status \notin CancelStatuses \cup {"PURCHASE_CONFIRM"}
        /\ NoFail
        /\ UNCHANGED <<orderTags, orderMeta>>
        /\ StatusStep([s EXCEPT !.pc = "stamp"])
     \/ /\ status \in CancelStatuses \cup {"PURCHASE_CONFIRM"}
        /\ NoFail
        /\ orderTags' = MergeTags(orderTags, tags)
        /\ orderMeta' = SetMetafields(orderMeta, metafields)
        /\ StatusStep(StatusLogged([s EXCEPT !.pc = "stamp"], call(TRUE)))
     \/ /\ status \in CancelStatuses \cup {"PURCHASE_CONFIRM"}
        /\ CanFail /\ Fail
        /\ UNCHANGED <<orderTags, orderMeta>>
        /\ StatusStep(OrderFailed(StatusLogged(s, call(FALSE)), orderTags, orderMeta))

\* await shopifyService.updateOrder({metafields: [last_status_sync, last_bunjang_status]})
Stamp ==
  LET s == statusSync
      metafields == StampMetafields(CurrentOrderItem.status, s.run)
      call(ok) == StatusCall("updateOrder", CurrentOrder.id, <<>>, metafields, ok)
  IN
  /\ s.pc = "stamp"
  /\ StatusFrame
  /\ \/ /\ NoFail
        /\ UNCHANGED orderTags
        /\ orderMeta' = SetMetafields(orderMeta, metafields)
        /\ StatusStep(NextOrderItem(StatusLogged(s, call(TRUE)), orderTags,
                                    SetMetafields(orderMeta, metafields)))
     \/ /\ CanFail /\ Fail
        /\ UNCHANGED <<orderTags, orderMeta>>
        /\ StatusStep(OrderFailed(StatusLogged(s, call(FALSE)), orderTags, orderMeta))

StatusSyncStep ==
  \/ GetBunjangOrders
  \/ SearchOrder
  \/ ItemAction
  \/ Stamp

---------------------------------------------------------------------------
(* orderSyncScheduler.js: the cron registrations and the queue of jobs. *)

\* delay: immediate ? 0 : 60000
DebounceMs == 60000
DelayOf(immediate) == IF immediate THEN 0 ELSE DebounceMs

HoursPerDay == 24

\* The triggers of a status sync: the three cron registrations, the manual
\* sync, and a call of scheduleOrderStatusSync that passes no options.
CronTriggers == {"hourly", "daily", "frequent"}

\* manual: what each call of manualOrderSync returned to its caller.
IdleScheduler ==
  [enableFrequentSync |-> FALSE, queue |-> <<>>, returned |-> <<>>, manual |-> <<>>]

\* A job of orderStatusSyncQueue: the window of its data and its delay.
Job(trigger, spanHours, immediate) ==
  [name |-> "syncOrderStatuses", trigger |-> trigger, spanHours |-> spanHours,
   immediate |-> immediate, delay |-> DelayOf(immediate)]

\* What a trigger got back from scheduleOrderStatusSync.
Answer(sch, trigger, outcome) ==
  [sch EXCEPT !.returned = Append(@, [trigger |-> trigger, outcome |-> outcome])]

\* Nothing but the scheduler's queue changes when a trigger fires.
SchedulerFrame ==
  UNCHANGED <<shopifyOrder, catalog, mappings, orderTags, orderMeta, bunjangOrders,
              inv, inventoryItem, sync, remoteOrders, statusSync, listings, svc,
              hook>>

\* scheduleOrderStatusSync(options): the window is validated, the job is
\* added with its delay and returned; a window over 15 days returns null; a
\* queue that refuses the job makes the function throw.
ScheduleOutcome_NoRangeCheck(spanHours, outcome) ==
  \/ NoFail /\ outcome = "job"
  \/ CanFail /\ Fail /\ outcome = "throw"

ScheduleOutcome(spanHours, outcome) ==
  IF spanHours > MaxRangeDays * HoursPerDay
  THEN NoFail /\ outcome = "null"
  ELSE \/ NoFail /\ outcome = "job"
       \/ CanFail /\ Fail /\ outcome = "throw"

Scheduled(sch, job, outcome) ==
  Answer(IF outcome = "job" THEN [sch EXCEPT !.queue = Append(@, job)] ELSE sch,
         job.trigger, outcome)

ScheduleOrderStatusSync(trigger, spanHours, immediate) ==
  /\ Len(scheduler.returned) < MaxJobs
  /\ SchedulerFrame
  /\ \E outcome \in {"job", "null", "throw"} :
       /\ ScheduleOutcome(spanHours, outcome)
       /\ scheduler' = Scheduled(scheduler, Job(trigger, spanHours, immediate), outcome)

\* cron.schedule('0 * * * *', ...): the last 2 hours, immediate: true
HourlySync == ScheduleOrderStatusSync("hourly", 2, TRUE)

\* cron.schedule('0 2 * * *', ...): the previous day, immediate: true
DailySync == ScheduleOrderStatusSync("daily", HoursPerDay, TRUE)

\* cron.schedule('*/30 * * * *', ...): the last hour, immediate: true;
\* registered when config.bunjang.enableFrequentSync === 'true'
FrequentSync ==
  /\ scheduler.enableFrequentSync
  /\ ScheduleOrderStatusSync("frequent", 1, TRUE)

\* What manualOrderSync returns: { success: true, jobId: job.id } of the job
\* it got back; job.id of null throws inside the try, and so does a throwing
\* scheduleOrderStatusSync: the catch returns { success: false }. The id of
\* a job is its position in the queue.
ManualResult(spanHours, outcome, jobId) ==
  IF outcome = "job"
  THEN [spanHours |-> spanHours, outcome |-> outcome, success |-> TRUE,
        jobId |-> Some(jobId)]
  ELSE [spanHours |-> spanHours, outcome |-> outcome, success |-> FALSE,
        jobId |-> None]

\* manualOrderSync(startDate, endDate): scheduleOrderStatusSync with
\* immediate: true, and the result object built from what it gave back.
ManualOrderSync ==
  \E days \in {1, MaxRangeDays, MaxRangeDays + 1} :
    /\ Len(scheduler.returned) < MaxJobs
    /\ SchedulerFrame
    /\ \E outcome \in {"job", "null", "throw"} :
         LET spanHours == days * HoursPerDay
             sch == Scheduled(scheduler, Job("manual", spanHours, TRUE), outcome)
         IN  /\ ScheduleOutcome(spanHours, outcome)
             /\ scheduler' =
                  [sch EXCEPT !.manual =
                     Append(@, ManualResult(spanHours, outcome, Len(sch.queue)))]

\* scheduleOrderStatusSync() called with no options: the last 24 hours,
\* immediate = false
DefaultSync == ScheduleOrderStatusSync("default", HoursPerDay, FALSE)

---------------------------------------------------------------------------
(* The states the handlers start from. *)

LineItems ==
  UNION {[1..n -> 1..MaxQty] : n \in 1..MaxItems}

\* Line item k buys product k.
OrderOf(quantities) ==
  [id |-> ShopifyOrderId, admin_graphql_api_id |-> Some(OrderGid(ShopifyOrderId)),
   line_items |-> [k \in 1..Len(quantities) |->
                     [product_id |-> k, quantity |-> quantities[k]]]]

\* A storefront product is linked by a mapping, carries the bunjang_pid tag
\* without a mapping, carries it while the listing's mapping is not linked
\* yet, or is not dual-listed.
ProductKinds == {"mapped", "tagged", "unlinked", "plain"}

CatalogOf(kinds) ==
  [p \in DOMAIN kinds |->
     [exists |-> TRUE,
      tags |-> IF kinds[p] = "plain" THEN <<Tag("kpop", NoNum, "")>>
               ELSE <<Tag("kpop", NoNum, ""), Tag("bunjang_pid:", PidOf(p), "")>>]]

StoreOf(kinds) ==
  {[Mapping(p, PidOf(p), Some(ProductGid(p)), Some(p), "SYNCED")
      EXCEPT !.bunjangOriginalPriceKrw = Some(CachedPrice)] :
     p \in {q \in DOMAIN kinds : kinds[q] = "mapped"}}
  \cup {[Mapping(p, PidOf(p), None, None, "PENDING")
           EXCEPT !.bunjangOriginalPriceKrw = Some(CachedPrice)] :
     p \in {q \in DOMAIN kinds : kinds[q] = "unlinked"}}

\* The listings at the price the mappings were not cached at.
LiveListings ==
  [k \in Products |-> [price |-> Some(LivePrice),
                       shippingFee |-> Some(LiveShippingFee)]]

\* The prices a listing can show: the price, a raised price, or none.
ListedPrices == {Some(LivePrice), Some(RaisedPrice), None}

InitOrdersWith(spent, Listed) ==
  /\ listings \in Listed
  /\ \E quantities \in LineItems :
       /\ shopifyOrder = OrderOf(quantities)
       /\ \E kinds \in [1..Len(quantities) -> ProductKinds] :
            /\ catalog = CatalogOf(kinds)
            /\ mappings = StoreOf(kinds)
  /\ orderTags = <<>>
  /\ orderMeta = [k \in MetaKeys |-> None]
  /\ bunjangOrders = <<>>
  /\ inv = [p \in Invocations |-> IdleInv]
  /\ inventoryItem = NoInventoryItem
  /\ sync = IdleSync
  /\ remoteOrders = <<>>
  /\ statusSync = IdleStatusSync
  /\ scheduler = IdleScheduler
  /\ svc = IdleSvc
  /\ hook = IdleHook
  /\ faults = spent

Init == InitOrdersWith(0, {LiveListings})

Next == \E p \in Invocations : Start(p) \/ ProcessStep(p)

Spec == Init /\ [][Next]_vars

\* Concurrent deliveries of one order.
NextConcurrent == \E p \in Invocations : StartConcurrent(p) \/ ProcessStep(p)

\* Overlapping invocations are explored with a single failure left to inject.
InitConcurrent == InitOrdersWith(MaxFaults - 1, {LiveListings})

SpecConcurrent == InitConcurrent /\ [][NextConcurrent]_vars

\* The deliveries of one order while the listings show any of the prices, with
\* a single failure left to inject.
InitPrices ==
  InitOrdersWith(MaxFaults - 1,
                 {[k \in Products |-> [price |-> prices[k],
                                       shippingFee |-> Some(LiveShippingFee)]] :
                    prices \in [Products -> ListedPrices]})

SpecPrices == InitPrices /\ [][Next]_vars

\* The inventory sync of one listing: the listing is linked, not linked yet
\* or unknown to the store; the item is tracked or not, and provisioned at the
\* warehouse with some quantity, or not provisioned there.
InitInventory ==
  /\ shopifyOrder = OrderOf(<<1>>)
  /\ catalog = CatalogOf(<<"mapped">>)
  /\ \E kind \in {"mapped", "unlinked", "plain"} : mappings = StoreOf(<<kind>>)
  /\ orderTags = <<>>
  /\ orderMeta = [k \in MetaKeys |-> None]
  /\ bunjangOrders = <<>>
  /\ inv = [p \in Invocations |-> IdleInv]
  /\ \E exists \in BOOLEAN : \E tracked \in BOOLEAN :
     \E onHand \in {None} \cup {Some(n) : n \in 0..MaxQty} :
       inventoryItem = [exists |-> exists, tracked |-> tracked, onHand |-> onHand,
                        other |-> MaxQty]
  /\ sync = IdleSync
  /\ remoteOrders = <<>>
  /\ statusSync = IdleStatusSync
  /\ listings = LiveListings
  /\ scheduler = IdleScheduler
  /\ svc = IdleSvc
  /\ hook = IdleHook
  /\ faults = 0

NextInventory == StartSync \/ SyncInventoryStep

SpecInventory == InitInventory /\ [][NextInventory]_vars

\* The items a remote order can hold: a status, and the confirmation time
\* the marketplace reports or omits for a confirmed purchase.
ConfirmedAt == <<"2025-01-01T00:00:00.000Z">>
OrderItems ==
  {[status |-> status, purchaseConfirmedAt |-> None] : status \in Statuses}
  \cup {[status |-> "PURCHASE_CONFIRM", purchaseConfirmedAt |-> Some(ConfirmedAt)]}

RemoteOrder(id, orderItems) == [id |-> id, orderItems |-> orderItems]

\* The pages the marketplace answers: none, or the first remote order alone,
\* or with a second remote order on the same page or on the next one.
Feeds ==
  {<<>>}
  \cup UNION {LET A == RemoteOrder(FirstBunjangOrderId, items)
                  B == RemoteOrder(FirstBunjangOrderId + 1,
                                   <<[status |-> "RETURN_REQUESTED",
                                      purchaseConfirmedAt |-> None]>>)
              IN {<< <<A>> >>, << <<A, B>> >>, << <<A>>, <<B>> >>} :
              items \in UNION {[1..n -> OrderItems] : n \in 1..MaxItems}}

\* The status sync: the storefront order was reconciled before and carries
\* the tag of the first remote order, or of both.
InitStatus ==
  /\ shopifyOrder = OrderOf(<<1>>)
  /\ catalog = CatalogOf(<<"mapped">>)
  /\ mappings = StoreOf(<<"mapped">>)
  /\ \E tagged \in 1..2 :
       LET ids == [k \in 1..tagged |-> DecStr(FirstBunjangOrderId + k - 1)] IN
       /\ orderTags = [k \in 1..tagged |-> BunjangOrderTag(FirstBunjangOrderId + k - 1)]
                        \o <<Tag("BunjangOrderPlaced", NoNum, ""),
                             BunjangOrderIdentifier(shopifyOrder)>>
       /\ orderMeta = [k \in MetaKeys |->
                         IF k = "order_ids" THEN Some(JSONStringify(ids))
                         ELSE IF k = "order_created_at" THEN Some(<<"now">>)
                         ELSE None]
  /\ bunjangOrders = <<>>
  /\ inv = [p \in Invocations |-> IdleInv]
  /\ inventoryItem = NoInventoryItem
  /\ sync = IdleSync
  /\ remoteOrders \in Feeds
  /\ statusSync = IdleStatusSync
  /\ listings = LiveListings
  /\ scheduler = IdleScheduler
  /\ svc = IdleSvc
  /\ hook = IdleHook
  /\ faults = 0

NextStatus == StartStatusSync \/ StatusSyncStep

SpecStatus == InitStatus /\ [][NextStatus]_vars

\* The inventory service: each listing is linked, not linked yet or unknown
\* to the store; the item of the first product is tracked or not, and
\* provisioned at the warehouse with some quantity, or not provisioned there.
InitService ==
  /\ shopifyOrder = OrderOf(<<1>>)
  /\ \E kinds \in [Products -> {"mapped", "unlinked", "plain"}] :
       /\ catalog = CatalogOf(kinds)
       /\ mappings = StoreOf(kinds)
  /\ orderTags = <<>>
  /\ orderMeta = [k \in MetaKeys |-> None]
  /\ bunjangOrders = <<>>
  /\ inv = [p \in Invocations |-> IdleInv]
  /\ \E exists \in BOOLEAN : \E tracked \in BOOLEAN :
     \E onHand \in {None} \cup {Some(n) : n \in 0..MaxQty} :
       inventoryItem = [exists |-> exists, tracked |-> tracked, onHand |-> onHand,
                        other |-> MaxQty]
  /\ sync = IdleSync
  /\ remoteOrders = <<>>
  /\ statusSync = IdleStatusSync
  /\ listings = LiveListings
  /\ scheduler = IdleScheduler
  /\ svc = IdleSvc
  /\ hook = IdleHook
  /\ faults = 0

\* The full sync: each product is linked and SYNCED, or has a PENDING mapping
\* without a storefront product; the inventory item of product 1 is not
\* tracked yet and is provisioned at the warehouse or not.
InitFullSync ==
  /\ shopifyOrder = OrderOf(<<1>>)
  /\ \E kinds \in [Products -> {"mapped", "unlinked"}] :
       /\ catalog = CatalogOf(kinds)
       /\ mappings = StoreOf(kinds)
  /\ orderTags = <<>>
  /\ orderMeta = [k \in MetaKeys |-> None]
  /\ bunjangOrders = <<>>
  /\ inv = [p \in Invocations |-> IdleInv]
  /\ \E exists \in BOOLEAN : \E onHand \in {None, Some(0)} :
       inventoryItem = [exists |-> exists, tracked |-> FALSE, onHand |-> onHand,
                        other |-> MaxQty]
  /\ sync = IdleSync
  /\ remoteOrders = <<>>
  /\ statusSync = IdleStatusSync
  /\ listings = LiveListings
  /\ scheduler = IdleScheduler
  /\ svc = IdleSvc
  /\ hook = IdleHook
  /\ faults = 0

NextFullSync == StartFullSync \/ FullSyncStep \/ SyncInventoryStep

SpecFullSync == InitFullSync /\ [][NextFullSync]_vars

NextService ==
  StartBatch \/ StartCheck \/ StartOutOfStock \/ ServiceStep \/ SyncInventoryStep

SpecService == InitService /\ [][NextService]_vars

\* The webhooks: an order of products that are linked, tagged or not
\* dual-listed, the item of the first product provisioned at the warehouse,
\* and a single failure left to inject.
InitWebhook ==
  /\ \E quantities \in LineItems :
       /\ shopifyOrder = OrderOf(quantities)
       /\ \E kinds \in [1..Len(quantities) -> {"mapped", "tagged", "plain"}] :
            /\ catalog = CatalogOf(kinds)
            /\ mappings = StoreOf(kinds)
  /\ orderTags = <<>>
  /\ orderMeta = [k \in MetaKeys |-> None]
  /\ bunjangOrders = <<>>
  /\ inv = [p \in Invocations |-> IdleInv]
  /\ inventoryItem = [exists |-> TRUE, tracked |-> FALSE, onHand |-> Some(0),
                      other |-> MaxQty]
  /\ sync = IdleSync
  /\ remoteOrders = <<>>
  /\ statusSync = IdleStatusSync
  /\ listings = LiveListings
  /\ scheduler = IdleScheduler
  /\ svc = IdleSvc
  /\ hook = IdleHook
  /\ faults = MaxFaults - 1

NextWebhook ==
  \/ OrderCreated
  \/ OrderCancelled
  \/ ProductDeleted
  \/ HookStep
  \/ CalleeStep
  \/ SyncInventoryStep
  \/ \E p \in Invocations : ProcessStep(p)

SpecWebhook == InitWebhook /\ [][NextWebhook]_vars

\* The scheduler: the cron jobs are initialized, with the 30-minute one
\* registered or not.
InitScheduler ==
  /\ shopifyOrder = OrderOf(<<1>>)
  /\ catalog = CatalogOf(<<"mapped">>)
  /\ mappings = StoreOf(<<"mapped">>)
  /\ orderTags = <<>>
  /\ orderMeta = [k \in MetaKeys |-> None]
  /\ bunjangOrders = <<>>
  /\ inv = [p \in Invocations |-> IdleInv]
  /\ inventoryItem = NoInventoryItem
  /\ sync = IdleSync
  /\ remoteOrders = <<>>
  /\ statusSync = IdleStatusSync
  /\ listings = LiveListings
  /\ \E flag \in BOOLEAN : scheduler = [IdleScheduler EXCEPT !.enableFrequentSync = flag]
  /\ svc = IdleSvc
  /\ hook = IdleHook
  /\ faults = 0

NextScheduler ==
  HourlySync \/ DailySync \/ FrequentSync \/ ManualOrderSync \/ DefaultSync

SpecScheduler == InitScheduler /\ [][NextScheduler]_vars

---------------------------------------------------------------------------
(* Properties of processShopifyOrderForBunjang. *)

Log(p) == inv[p].log
Calls(p, op) == {j \in 1..Len(Log(p)) : Log(p)[j].op = op}
ItemCalls(p, op, k) == {j \in Calls(p, op) : Log(p)[j].item = k}
OrdersBy(p) == {j \in 1..Len(bunjangOrders) : bunjangOrders[j].by = p}
HasTag(t) == \E j \in 1..Len(orderTags) : orderTags[j] = t
Succeeded(p) == inv[p].result.kind = "return" /\ inv[p].result.success
MetaReadOk(p) == \E j \in Calls(p, "getOrderMetafield") : Log(p)[j].ok
\* The updateOrder requests of p that carry metafields.
MetaWrites(p) == {j \in Calls(p, "updateOrder") : Len(Log(p)[j].metafields) > 0}

\* C1, as claimed: after an invocation returned success:true, the next
\* invocation for the same order sends no order-creation request and returns
\* alreadyProcessed:true with the first invocation's id list.
C1_SecondCallCreatesNothing ==
  \A p \in Invocations : \A q \in Invocations :
    (q = p + 1 /\ Succeeded(p) /\ ValidOrder(inv[q].order)) =>
      /\ Calls(q, "createBunjangOrderV2") = {}
      /\ OrdersBy(q) = {}
      /\ inv[q].pc = "done" =>
           /\ inv[q].result.kind = "return"
           /\ inv[q].result.alreadyProcessed
           /\ inv[q].result.bunjangOrderIds = inv[p].result.bunjangOrderIds

\* C1, amended: after an invocation returned success:true, the next
\* invocation for the same order, once its read of the order_ids metafield
\* has succeeded, has returned success:true and alreadyProcessed:true with the
\* first invocation's id list, and has sent no order-creation request.
C1_SecondCallSkipsWhenReadSucceeds ==
  \A p \in Invocations : \A q \in Invocations :
    (q = p + 1 /\ Succeeded(p) /\ MetaReadOk(q)) =>
      /\ Calls(q, "createBunjangOrderV2") = {}
      /\ OrdersBy(q) = {}
      /\ inv[q].pc = "done"
      /\ Succeeded(q)
      /\ inv[q].result.alreadyProcessed
      /\ inv[q].result.bunjangOrderIds = inv[p].result.bunjangOrderIds

\* A second invocation answered alreadyProcessed with the two ids of the first.
C1_Witness ==
  /\ Succeeded(1)
  /\ Len(inv[1].createdBunjangOrderIds) = 2
  /\ inv[2].result.alreadyProcessed
  /\ inv[2].result.bunjangOrderIds = inv[1].createdBunjangOrderIds

\* C2, as claimed: whatever the interleaving of the invocations for one
\* order, at most one remote order exists per line item.
C2_AtMostOneOrderPerItem ==
  \A k \in 1..MaxItems :
    Cardinality({j \in 1..Len(bunjangOrders) : bunjangOrders[j].item = k}) <= 1

\* C4, as claimed: an invocation that went into the item loop has looked up
\* every line item when it ends, and its result is success:true exactly when
\* it created a remote order id.
C4_EveryItemProcessed ==
  \A p \in Invocations :
    (inv[p].pc = "done" /\ ValidOrder(inv[p].order)
       /\ ~inv[p].result.alreadyProcessed) =>
      /\ \A k \in 1..Len(inv[p].order.line_items) : ItemCalls(p, "findOne", k) # {}
      /\ Succeeded(p) <=> Len(inv[p].createdBunjangOrderIds) > 0

\* C5, as claimed: the only error an invocation raises is the ValidationError.
C5_ThrowsOnlyValidationError ==
  \A p \in Invocations :
    inv[p].result.kind = "throw" => inv[p].result.error = "ValidationError"

\* The storefront product carries the tag bunjang_pid:<its listing id>.
HasPidTag(productId) ==
  \E t \in 1..Len(catalog[productId].tags) :
    catalog[productId].tags[t] = Tag("bunjang_pid:", PidOf(productId), "")

LinkedMapping(productId) ==
  \E m \in mappings : /\ m.bunjangPid = PidOf(productId)
                      /\ m.shopifyGid = Some(ProductGid(productId))
                      /\ m.syncStatus = "SYNCED"

\* The invocation is done with line item k.
PastItem(p, k) == inv[p].pc \in {"done", "writeMeta"} \/ inv[p].item > k

\* C7, as claimed: a line item whose product has no mapping (the lookup found
\* none, so the tags were queried) and carries bunjang_pid:<id> has, once the
\* invocation is done with it, a SYNCED mapping for <id> linked to the
\* product, and the product-detail fetch for <id> was made.
C7_TaggedProductIsLinked ==
  \A p \in Invocations : \A j \in Calls(p, "getProductTags") :
    LET k == Log(p)[j].item IN
    (HasPidTag(k) /\ PastItem(p, k)) =>
      /\ LinkedMapping(k)
      /\ ItemCalls(p, "getBunjangProductDetails", k) # {}

\* The ids of the remote orders p created, oldest first.
RECURSIVE IdsBy(_, _)
IdsBy(p, orders) ==
  IF Len(orders) = 0 THEN <<>>
  ELSE (IF Head(orders).by = p THEN <<DecStr(Head(orders).id)>> ELSE <<>>)
       \o IdsBy(p, Tail(orders))

\* C9: the ids an invocation holds are those of the remote orders it created,
\* in line-item order; it requests the order_ids metafield only after the
\* loop, at most once, only when it holds an id, and with exactly that list; an
\* invocation that returns from the loop has requested it exactly when it
\* holds an id; and for each id N it created, the tag BunjangOrder-N was
\* requested right after the creation and is on the order when the storefront
\* applied that request.
C9_RecordedIds ==
  \A p \in Invocations :
    LET r == inv[p] IN
    /\ r.createdBunjangOrderIds = IdsBy(p, bunjangOrders)
    /\ \A a \in OrdersBy(p) : \A b \in OrdersBy(p) :
         a < b => bunjangOrders[a].item < bunjangOrders[b].item
    /\ Cardinality(MetaWrites(p)) <= 1
    /\ \A j \in MetaWrites(p) :
         /\ Len(r.createdBunjangOrderIds) > 0
         /\ j = Len(Log(p))
         /\ r.pc = "done"
         /\ Log(p)[j].metafields[1].key = "order_ids"
         /\ Log(p)[j].metafields[1].value = JSONStringify(r.createdBunjangOrderIds)
         /\ JSONParse(Log(p)[j].metafields[1].value) = r.createdBunjangOrderIds
         /\ Log(p)[j].ok =>
              IsSome(orderMeta["order_ids"])
    /\ (r.pc = "done" /\ r.result.kind = "return" /\ ~r.result.alreadyProcessed) =>
         /\ (MetaWrites(p) # {}) <=> (Len(r.createdBunjangOrderIds) > 0)
         /\ \A j \in MetaWrites(p) : Log(p)[j].ok
    /\ \A o \in OrdersBy(p) :
         LET N == bunjangOrders[o].id IN
         \/ r.pc = "tagSuccess" /\ r.bunjangOrderId = N
         \/ \E j \in Calls(p, "updateOrder") :
              /\ Log(p)[j].tags = <<BunjangOrderTag(N)>>
              /\ Log(p)[j - 1].op = "createBunjangOrderV2"
              /\ Log(p)[j].ok => HasTag(BunjangOrderTag(N))

\* Two remote orders created, tagged and recorded as ["9","10"].
C9_Witness ==
  \E p \in Invocations :
    /\ Succeeded(p)
    /\ Len(inv[p].createdBunjangOrderIds) = 2
    /\ orderMeta["order_ids"] = Some(JSONStringify(inv[p].createdBunjangOrderIds))
    /\ \A o \in OrdersBy(p) : HasTag(BunjangOrderTag(bunjangOrders[o].id))

\* The detail fetch answered less stock than line item k orders.
Insufficient(p, j) ==
  LET e == Log(p)[j] IN
  /\ e.op = "getBunjangProductDetails"
  /\ IsSome(e.res)
  /\ (IF IsSome(Val(e.res).quantity) THEN Val(Val(e.res).quantity) ELSE 0)
       < inv[p].order.line_items[e.item].quantity

\* C10: for a line item whose ordered quantity exceeds the live quantity (a
\* missing one counting as 0) no order-creation request is sent, and the next
\* request is the tagging of the order with its error marker and
\* PID-<id>-InsufficientStock, both on the order when the storefront applied
\* it; an invocation in which every detail fetch answered so holds no id,
\* requests no metafield and does not return success:true.
C10_InsufficientStock ==
  \A p \in Invocations :
    LET short == {j \in 1..Len(Log(p)) : Insufficient(p, j)} IN
    /\ \A j \in short :
         LET e == Log(p)[j] IN
         /\ ItemCalls(p, "createBunjangOrderV2", e.item) = {}
         /\ j < Len(Log(p)) =>
              /\ Log(p)[j + 1].op = "updateOrder"
              /\ Log(p)[j + 1].tags = <<ErrorMarker(inv[p].order),
                                        PidTag(e.arg, "-InsufficientStock")>>
              /\ Log(p)[j + 1].metafields = <<>>
              /\ Log(p)[j + 1].ok =>
                   /\ HasTag(ErrorMarker(inv[p].order))
                   /\ HasTag(PidTag(e.arg, "-InsufficientStock"))
    /\ (short # {} /\ Calls(p, "getBunjangProductDetails") \subseteq short) =>
         /\ inv[p].createdBunjangOrderIds = <<>>
         /\ OrdersBy(p) = {}
         /\ MetaWrites(p) = {}
         /\ ~Succeeded(p)
         /\ (inv[p].pc = "done" /\ inv[p].result.kind = "return") =>
              (~inv[p].result.success /\ ~inv[p].result.alreadyProcessed)

\* The example of the specification: 2 ordered, 1 available, the order tagged
\* and the result success:false.
C10_Witness ==
  \E p \in Invocations : \E j \in 1..Len(Log(p)) :
    /\ Insufficient(p, j)
    /\ Val(Log(p)[j].res).quantity = Some(1)
    /\ inv[p].order.line_items[Log(p)[j].item].quantity = 2
    /\ HasTag(PidTag(Log(p)[j].arg, "-InsufficientStock"))
    /\ HasTag(ErrorMarker(inv[p].order))
    /\ inv[p].pc = "done"
    /\ inv[p].result.kind = "return"
    /\ ~inv[p].result.success

\* The order lacks its id, its GID, or its line items (missing or empty).
LacksField(order) ==
  \/ order.id = 0
  \/ order.admin_graphql_api_id = None
  \/ order.line_items = <<>>

\* C11: an invocation called with an order that lacks its id, its GID or its
\* line items has ended with the ValidationError, and it has issued no request
\* at all: no read or write of the mapping store, no call of the marketplace,
\* no read or mutation of the storefront; no remote order is its own.
C11_InvalidOrderRejected ==
  \A p \in Invocations :
    (inv[p].pc # "idle" /\ LacksField(inv[p].order)) =>
      /\ inv[p].pc = "done"
      /\ inv[p].result.kind = "throw"
      /\ inv[p].result.error = "ValidationError"
      /\ Log(p) = <<>>
      /\ OrdersBy(p) = {}
      /\ inv[p].createdBunjangOrderIds = <<>>

\* After a first delivery created remote orders and recorded them, a delivery
\* without line items was refused, the remote orders being those of the first.
C11_Witness ==
  /\ Succeeded(1)
  /\ inv[2].pc = "done"
  /\ inv[2].order.line_items = <<>>
  /\ inv[2].result.error = "ValidationError"
  /\ Len(bunjangOrders) = Len(inv[1].createdBunjangOrderIds)
  /\ Len(bunjangOrders) > 0

\* The read of the order_ids metafield by invocation p threw.
MetaReadFailed(p) ==
  /\ Len(Log(p)) > 0
  /\ Log(p)[1].op = "getOrderMetafield"
  /\ ~Log(p)[1].ok

\* C19: an invocation whose read of the order_ids metafield threw, whatever
\* the order holds, is not answered alreadyProcessed and does not end on that
\* error: it goes to the lookup of line item 1 with no id created, as after a
\* read that found nothing; and when no later request of its own fails, it
\* has looked up every line item once it is done, and it returns a result.
C19_FailOpen ==
  \A p \in Invocations :
    MetaReadFailed(p) =>
      /\ ~inv[p].result.alreadyProcessed
      /\ inv[p].result.error # "getOrderMetafield"
      /\ Len(Log(p)) = 1 =>
           /\ inv[p].pc = "findOne"
           /\ inv[p].item = 1
           /\ inv[p].createdBunjangOrderIds = <<>>
           /\ ~inv[p].bunjangOrderSuccessfullyCreatedOverall
      /\ Len(Log(p)) > 1 =>
           /\ Log(p)[2].op = "findOne"
           /\ Log(p)[2].item = 1
      /\ (inv[p].pc = "done"
            /\ \A j \in 2..Len(Log(p)) :
                 Log(p)[j].ok \/ Log(p)[j].op \notin {"findOne", "updateOrder"}) =>
           /\ inv[p].result.kind = "return"
           /\ \A k \in 1..Len(inv[p].order.line_items) :
                Cardinality(ItemCalls(p, "findOne", k)) = 1

\* The order carries the ids of a first invocation; the read of the second
\* threw, and the second went through the items and created an order again.
C19_Witness ==
  /\ Succeeded(1)
  /\ IsSome(orderMeta["order_ids"])
  /\ MetaReadFailed(2)
  /\ Succeeded(2)
  /\ ~inv[2].result.alreadyProcessed
  /\ OrdersBy(2) # {}

\* The product-detail fetches of p for line item k answered before request j.
FetchesBefore(p, k, j) ==
  {i \in ItemCalls(p, "getBunjangProductDetails", k) : i < j}

\* price: bunjangProductDetails.price || 0
PayloadPrice(details) == IF IsSome(details.price) THEN Val(details.price) ELSE 0

\* C20: every order-creation request of an invocation carries deliveryPrice 0
\* whatever shipping fee the listing shows, and as price the price answered
\* by the one product-detail fetch the same invocation made for the same line
\* item, the request right before it (0 when the answer holds no price); the
\* remote orders created hold the same.
C20_ZeroDeliveryLivePrice ==
  /\ \A p \in Invocations : \A j \in Calls(p, "createBunjangOrderV2") :
       LET e == Log(p)[j]
           fetches == FetchesBefore(p, e.item, j)
       IN
       /\ IsSome(e.payload)
       /\ Val(e.payload).deliveryPrice = 0
       /\ fetches = {j - 1}
       /\ IsSome(Log(p)[j - 1].res)
       /\ Log(p)[j - 1].arg = e.arg
       /\ Val(e.payload).product.id = e.arg
       /\ Val(e.payload).product.price = PayloadPrice(Val(Log(p)[j - 1].res))
       /\ Val(Log(p)[j - 1].res).price = ListingOf(e.arg).price
  /\ \A o \in 1..Len(bunjangOrders) :
       /\ bunjangOrders[o].deliveryPrice = 0
       /\ bunjangOrders[o].product.price
            = PayloadPrice(ListingOf(bunjangOrders[o].product.id))

\* Both line items were ordered at the marketplace by the first invocation:
\* one listing shows the raised price and the other the price, neither the
\* price the mappings cache, both show a shipping fee, and the two remote
\* orders carry the two live prices and no delivery price.
C20_Witness ==
  /\ Len(shopifyOrder.line_items) = 2
  /\ \A m \in mappings : m.bunjangOriginalPriceKrw = Some(CachedPrice)
  /\ Cardinality(mappings) = 2
  /\ listings[1].price = Some(RaisedPrice)
  /\ listings[2].price = Some(LivePrice)
  /\ \A k \in Products : listings[k].shippingFee = Some(LiveShippingFee)
  /\ Succeeded(1)
  /\ Len(bunjangOrders) = 2
  /\ bunjangOrders[1].product = [id |-> PidOf(1), price |-> RaisedPrice]
  /\ bunjangOrders[2].product = [id |-> PidOf(2), price |-> LivePrice]
  /\ \A o \in 1..2 : bunjangOrders[o].deliveryPrice = 0
  /\ \A j \in Calls(1, "createBunjangOrderV2") :
       Val(Log(1)[j].payload).product.price # CachedPrice

\* The create requests of p for line item k that the store answered ok or not.
Creates(p, k, ok) == {j \in ItemCalls(p, "create", k) : Log(p)[j].ok = ok}

\* C17: no two documents of the mapping store share a bunjangPid, and no two
\* share a shopifyGid that is present, also while deliveries of the order
\* overlap and auto-link the same products.
C17_UniqueMappings ==
  \A m1 \in mappings : \A m2 \in mappings :
    m1 # m2 =>
      /\ m1.bunjangPid # m2.bunjangPid
      /\ IsSome(m1.shopifyGid) => m1.shopifyGid # m2.shopifyGid

\* Two overlapping deliveries both looked the first line item's mapping up
\* before either had created it, and both went on to create it: the store
\* took the first document and refused the second, with no failure injected.
C17_Witness ==
  /\ faults = MaxFaults - 1
  /\ Creates(1, 1, TRUE) # {}
  /\ Creates(2, 1, FALSE) # {}
  /\ Cardinality({m \in mappings : m.bunjangPid = PidOf(1)}) = 1

---------------------------------------------------------------------------
(* Properties of syncBunjangInventoryToShopify. *)

\* C3, as claimed: whenever the sync has returned true, the on-hand quantity
\* at the designated warehouse location is exactly 1.
C3_ReturnedTrueMeansOne ==
  (sync.pc = "done" /\ sync.result = "true") => inventoryItem.onHand = Some(1)

---------------------------------------------------------------------------
(* Properties of syncBunjangOrderStatuses. *)

\* The window the current sync was called with, in milliseconds.
RequestedSpan == statusSync.endDate - statusSync.startDate
FifteenDays == MaxRangeDays * MsPerDay

\* C6: a sync called with a window of exactly 15 days is not refused: it goes
\* on to request page 0 of the remote listing, its first request; a sync
\* called with 15 days and 1 second (or 1 millisecond) has ended with the
\* ValidationError, having issued no request at all, neither to the
\* marketplace nor to the storefront, the storefront order being as it was;
\* and a sync ends with the ValidationError only for a window over 15 days.
C6_DateRangeBoundary ==
  LET s == statusSync IN
  s.run > 0 =>
    /\ RequestedSpan = FifteenDays =>
         /\ s.result # "ValidationError"
         /\ \/ (s.pc = "getOrders" /\ s.page = 0 /\ s.log = <<>>)
            \/ (Len(s.log) > 0 /\ s.log[1].op = "getBunjangOrders"
                               /\ s.log[1].arg = 0)
    /\ RequestedSpan \in {FifteenDays + 1, FifteenDays + 1000} =>
         /\ s.pc = "done"
         /\ s.result = "ValidationError"
         /\ s.log = <<>>
         /\ s.finals[s.run].tags = orderTags
         /\ s.finals[s.run].meta = orderMeta
         /\ s.run > 1 => /\ s.finals[s.run - 1].tags = orderTags
                         /\ s.finals[s.run - 1].meta = orderMeta
    /\ s.result = "ValidationError" => RequestedSpan > FifteenDays

\* A sync over exactly 15 days went through the listing and returned, and the
\* next one, over 15 days and 1 second, was refused.
C6_Witness ==
  /\ Len(statusSync.finals) = 2
  /\ statusSync.finals[1].span = FifteenDays
  /\ statusSync.finals[1].result = "success"
  /\ statusSync.finals[1].clean
  /\ Len(remoteOrders) > 0
  /\ statusSync.finals[2].span = FifteenDays + 1000
  /\ statusSync.finals[2].result = "ValidationError"

\* Timestamps taken from the clock of the sync count as one value.
Masked(meta) ==
  [k \in DOMAIN meta |->
     IF IsSome(meta[k]) /\ Len(Val(meta[k])) > 0 /\ Val(meta[k])[1] = "now"
     THEN Some(<<"now">>) ELSE meta[k]]

NoDuplicateTags(tags) ==
  \A a \in 1..Len(tags) : \A b \in 1..Len(tags) : tags[a] = tags[b] => a = b

\* Two syncs went through the same remote listing without a failed request.
TwoCleanRuns ==
  /\ Len(statusSync.finals) = 2
  /\ \A k \in 1..2 : /\ statusSync.finals[k].result = "success"
                     /\ statusSync.finals[k].clean

RECURSIVE OrdersOn(_, _)
OrdersOn(pages, n) ==
  IF n = 0 THEN 0 ELSE OrdersOn(pages, n - 1) + Len(pages[n])

RECURSIVE OrderIdsOn(_, _)
OrderIdsOn(pages, n) ==
  IF n = 0 THEN <<>>
  ELSE OrderIdsOn(pages, n - 1) \o [k \in 1..Len(pages[n]) |-> pages[n][k].id]

\* The pages the marketplace returned to the running sync.
PagesReturned ==
  LET fetched == Cardinality({j \in 1..Len(statusSync.log) :
                                /\ statusSync.log[j].op = "getBunjangOrders"
                                /\ statusSync.log[j].ok})
  IN IF fetched < Len(remoteOrders) THEN fetched ELSE Len(remoteOrders)

\* The requests of the sync that failed while an order was processed.
FailedOrderCalls ==
  {j \in 1..Len(statusSync.log) :
     statusSync.log[j].op # "getBunjangOrders" /\ ~statusSync.log[j].ok}

\* The ids the sync searched the storefront for, in the order of the requests.
SearchedIds ==
  LET searches == SelectSeq(statusSync.log,
                            LAMBDA c : c.op = "findOrderByBunjangId")
  IN [j \in 1..Len(searches) |-> searches[j].arg]

\* C15: a failure while one remote order is processed is counted and the sync
\* goes on with the next order: errorCount is the number of failed requests,
\* while an order is processed syncedCount + errorCount is the number of
\* orders before it, and when the sync returns the storefront was searched
\* for every order of every page returned, in order, and
\* syncedCount + errorCount is the number of those orders.
C15_IsolationAndCounts ==
  LET s == statusSync IN
  /\ s.errorCount = Cardinality(FailedOrderCalls)
  /\ s.pc \in {"search", "itemAction", "stamp"} =>
       /\ PagesReturned = s.page + 1
       /\ s.syncedCount + s.errorCount
            = OrdersOn(remoteOrders, s.page) + s.order - 1
  /\ s.pc = "getOrders" =>
       s.syncedCount + s.errorCount = OrdersOn(remoteOrders, PagesReturned)
  /\ (s.pc = "done" /\ s.result = "success") =>
       /\ s.syncedCount + s.errorCount = OrdersOn(remoteOrders, PagesReturned)
       /\ SearchedIds = OrderIdsOn(remoteOrders, PagesReturned)
       /\ (\A j \in 1..Len(s.log) : s.log[j].op = "getBunjangOrders" => s.log[j].ok)
            => PagesReturned = Len(remoteOrders)

\* Two pages of one order each: the search for the first order failed and
\* was counted, the second page was fetched and its order synced, and the
\* sync returned with one order synced and one error.
C15_Witness ==
  /\ Len(remoteOrders) = 2
  /\ statusSync.pc = "done"
  /\ statusSync.result = "success"
  /\ statusSync.errorCount = 1
  /\ statusSync.syncedCount = 1
  /\ statusSync.log[2].op = "findOrderByBunjangId"
  /\ ~statusSync.log[2].ok
  /\ statusSync.log[3].op = "getBunjangOrders"
  /\ statusSync.log[3].ok
  /\ statusSync.log[Len(statusSync.log)].arg = FirstBunjangOrderId + 1

---------------------------------------------------------------------------
(* Properties of the callers of the sync (inventoryService.js). *)

\* C13: a batch awaits the sync of quantity 1 for every update of its list,
\* in order, whatever the earlier syncs returned or threw: each sync that
\* settled left one entry of details for its pid and one count, of success
\* when it returned true and of failed otherwise, and on return
\* success + failed is the number of updates and details holds one entry per
\* update.
C13_BatchAttemptsAll ==
  LET c == svc
      settled == 1..Len(c.log)
  IN
  c.fn = "batchSyncInventory" =>
    /\ Len(c.results.details) = Len(c.log)
    /\ c.results.success + c.results.failed = Len(c.log)
    /\ c.results.success
         = Cardinality({i \in settled : c.log[i].result = "true"})
    /\ \A i \in settled :
         /\ c.log[i].op = "syncBunjangInventoryToShopify"
         /\ c.log[i].pid = c.inventoryUpdates[i].pid
         /\ c.log[i].quantity = 1
         /\ c.results.details[i].pid = c.inventoryUpdates[i].pid
         /\ c.results.details[i].success <=> c.log[i].result = "true"
    /\ c.pc = "sync" =>
         /\ Len(c.log) = c.index - 1
         /\ sync.bunjangPid = c.inventoryUpdates[c.index].pid
    /\ c.pc = "done" =>
         /\ c.result = "results"
         /\ Len(c.log) = Len(c.inventoryUpdates)
         /\ c.results.success + c.results.failed = Len(c.inventoryUpdates)

\* A batch of two updates returned: the sync of the first threw, the sync of
\* the second returned true.
C13_Witness ==
  /\ svc.fn = "batchSyncInventory"
  /\ svc.pc = "done"
  /\ Len(svc.inventoryUpdates) = 2
  /\ svc.log[1].result = "throw"
  /\ svc.log[2].result = "true"
  /\ svc.results.success = 1
  /\ svc.results.failed = 1
  /\ svc.results.details[1].error

\* The set-on-hand requests of a sync that a caller awaited.
SetOnHandRequests(run) ==
  {j \in 1..Len(run.calls) : run.calls[j].op = "inventorySetOnHandQuantities"}

\* C14: when checkAndSyncBunjangInventory has returned 1, the sync it awaited
\* for the listing issued the set-on-hand request.
C14_OneImpliesSetOnHand ==
  (/\ svc.fn = "checkAndSyncBunjangInventory"
   /\ svc.pc = "done"
   /\ svc.result = "1")
  => \E i \in 1..Len(svc.log) :
       /\ svc.log[i].op = "syncBunjangInventoryToShopify"
       /\ svc.log[i].pid = svc.bunjangPid
       /\ SetOnHandRequests(svc.log[i]) # {}

---------------------------------------------------------------------------
(* Properties of the webhook handlers. *)

\* The line items whose mapping lookup the handler has awaited.
LookedUp == {hook.log[j].item : j \in {i \in 1..Len(hook.log) : hook.log[i].op = "findOne"}}

\* C12: the order-created handler answers once, when it is done; it answers
\* 500 only when the error came from outside its guarded steps (the request
\* had no body), and 200 otherwise: whether processShopifyOrderForBunjang
\* returned success true or false or threw, and whichever line items failed
\* in the inventory loop, each line item having been looked up.
C12_Acknowledgment ==
  LET h == hook IN
  h.kind = "orders/create" =>
    /\ h.status \in {0, 200, 500}
    /\ h.status # 0 <=> h.pc = "done"
    /\ h.status = 500 => ~h.hasBody /\ h.log = <<>>
    /\ (h.pc = "done" /\ h.hasBody) =>
         /\ h.status = 200
         /\ h.bunjangOrderResult \in {"success", "failure", "throw"}
         /\ LookedUp = 1..Len(h.order.line_items)
         /\ h.failed \subseteq LookedUp
    /\ h.bunjangOrderResult \in {"success", "failure"} =>
         inv[h.event].result.kind = "return"

\* An order of two line items: processShopifyOrderForBunjang returned
\* success false, the lookup of the first line item threw in the inventory
\* loop, the second was looked up, and the handler answered 200.
C12_Witness ==
  /\ hook.kind = "orders/create"
  /\ hook.status = 200
  /\ hook.bunjangOrderResult = "failure"
  /\ Len(hook.order.line_items) = 2
  /\ hook.failed = {1}
  /\ LookedUp = {1, 2}

\* The functions the handlers called issue set-on-hand requests of quantity 1.
OutOfStockKeeps(c, s) ==
  c.fn = "deleteProductIfOutOfStock" =>
    /\ c.result \in {"none", "false", "throw"}
    /\ c.pc = "sync" => /\ s.bunjangPid = c.bunjangPid
                        /\ s.bunjangQuantity = 1
    /\ c.pc = "done" => Len(c.log) = 1
    /\ \A i \in 1..Len(c.log) :
         /\ c.log[i].op = "syncBunjangInventoryToShopify"
         /\ c.log[i].pid = c.bunjangPid
         /\ c.log[i].quantity = 1
         /\ c.result = "false" <=> c.log[i].result \in {"true", "false"}
         /\ \A j \in SetOnHandRequests(c.log[i]) : c.log[i].calls[j].quantity = 1

\* One step of the handlers and of the functions they call: the storefront
\* products stay; a mapping leaves the store only in the deleteOne of the
\* product-deleted handler and its shopifyGid is that of the deleted product,
\* and after that handler answered 200 no mapping holds that shopifyGid;
\* deleteProductIfOutOfStock awaits the sync of quantity 1 for its listing
\* and returns false when the sync returned.
MappingLifetimeStep ==
  /\ catalog' = catalog
  /\ \A m \in mappings :
       (\A n \in mappings' : n._id # m._id) =>
         /\ hook.kind = "products/delete"
         /\ hook.pc = "deleteOne"
         /\ m.shopifyGid = Some(ProductGid(hook.productId))
  /\ (hook'.kind = "products/delete" /\ hook'.status = 200) =>
       \A n \in mappings' : n.shopifyGid # Some(ProductGid(hook'.productId))
  /\ OutOfStockKeeps(svc', sync')

---------------------------------------------------------------------------
(* Properties of the scheduler. *)

\* The jobs of the queue that a cron registration added.
CronJobs ==
  {j \in 1..Len(scheduler.queue) : scheduler.queue[j].trigger \in CronTriggers}

\* C18: every job a cron registration (hourly, daily, 30-minute) added to the
\* queue carries a delay greater than zero.
C18_CronJobsDelayed ==
  \A j \in CronJobs : scheduler.queue[j].delay > 0

\* The jobs the cron registrations add carry immediate: true and no delay;
\* the delay of a minute is that of a call that passes no immediate.
DelayIsOfImmediate ==
  \A j \in 1..Len(scheduler.queue) :
    LET job == scheduler.queue[j] IN
    /\ job.delay = (IF job.immediate THEN 0 ELSE DebounceMs)
    /\ job.trigger \in CronTriggers \cup {"manual"} => job.immediate
    /\ job.spanHours <= MaxRangeDays * HoursPerDay

\* The three cron registrations have each added their job.
CronJobsQueued ==
  /\ Len(scheduler.queue) = 3
  /\ {scheduler.queue[j].trigger : j \in 1..3} = CronTriggers

---------------------------------------------------------------------------
\* Properties of the classification of a failed order creation.

\* The classification the specification gives for a remote error code.
ClassificationOf(errorCode) ==
  IF errorCode = "PRODUCT_NOT_FOUND" THEN "-NotAvailable"
  ELSE IF errorCode = "PRODUCT_SOLD_OUT" THEN "-NotAvailable"
  ELSE IF errorCode = "PRODUCT_ON_HOLD" THEN "-NotAvailable"
  ELSE IF errorCode = "INVALID_PRODUCT_PRICE" THEN "-PriceChanged"
  ELSE IF errorCode = "POINT_SHORTAGE" THEN "-InsufficientPoints"
  ELSE "-CreateFail"

\* The rejected order-creation requests of invocation p.
RejectedCreates(p) == {j \in Calls(p, "createBunjangOrderV2") : ~Log(p)[j].ok}

\* The tags that classify the rejected creation e of invocation p.
ClassificationTags(p, e) ==
  <<Tag("BunjangOrder-", inv[p].order.id, "_Error"),
    Tag("PID-", e.arg, ClassificationOf(e.errorCode))>>

\* C21: the classification of a rejected order creation is a total function
\* of its error code: PRODUCT_NOT_FOUND, PRODUCT_SOLD_OUT and PRODUCT_ON_HOLD
\* give NotAvailable, INVALID_PRODUCT_PRICE gives PriceChanged, POINT_SHORTAGE
\* gives InsufficientPoints, every other code and no code give CreateFail.
\* The request that follows the rejection is one updateOrder for the same line
\* item that carries exactly the order's error marker and that one tag of the
\* listing; once it is accepted both tags are on the order and the invocation
\* issues no further tagging request for that line item.
C21_ErrorClassification ==
  \A p \in Invocations : \A j \in RejectedCreates(p) :
    LET e == Log(p)[j] IN
    /\ j = Len(Log(p)) => inv[p].pc = "tagCreateErr"
    /\ j < Len(Log(p)) =>
         LET u == Log(p)[j + 1] IN
         /\ u.op = "updateOrder"
         /\ u.item = e.item
         /\ u.tags = ClassificationTags(p, e)
         /\ u.ok =>
              /\ \A i \in 1..2 : HasTag(ClassificationTags(p, e)[i])
              /\ \A i \in (j + 2)..Len(Log(p)) :
                   Log(p)[i].op = "updateOrder" => Log(p)[i].item # e.item

\* An invocation whose creation was rejected with a code outside the switch
\* and one whose creation was rejected with no code at all, both tagged
\* CreateFail; the order also carries the tag of a sold-out listing.
C21_Witness ==
  \E p \in Invocations : \E j \in RejectedCreates(p) :
    /\ Log(p)[j].errorCode = "SERVER_ERROR"
    /\ j < Len(Log(p))
    /\ Log(p)[j + 1].ok
    /\ Log(p)[j + 1].tags[2] = Tag("PID-", Log(p)[j].arg, "-CreateFail")
    /\ HasTag(Tag("PID-", Log(p)[j].arg, "-CreateFail"))
    /\ \E q \in Invocations : \E i \in RejectedCreates(q) :
         /\ Log(q)[i].errorCode = "PRODUCT_SOLD_OUT"
         /\ HasTag(Tag("PID-", Log(q)[i].arg, "-NotAvailable"))

---------------------------------------------------------------------------
\* Properties of one inventory sync.

\* The requests of the running (or last) sync with the given name.
SyncCalls(op) == {j \in 1..Len(sync.log) : sync.log[j].op = op}

\* The store answered the sync's lookup and holds no mapping under the
\* listing id, or one without a storefront product reference.
FoundNothing ==
  /\ SyncCalls("findOne") = {1}
  /\ sync.log[1].ok
  /\ \A m \in mappings : m.bunjangPid = sync.bunjangPid => m.shopifyGid = None

\* The sync returned false after its lookup, with no other request.
ReturnedFalseAtOnce ==
  /\ sync.pc = "done"
  /\ sync.result = "false"
  /\ Len(sync.log) = 1

\* C22: a sync of a listing id whose lookup finds no mapping, or a mapping
\* without a storefront product reference, returns false without raising,
\* issues no request to the storefront gateway, and leaves the mapping store
\* as it was.
C22_NoMappingReturnsFalse ==
  [][/\ FoundNothing' => ReturnedFalseAtOnce'
     /\ (sync.pc = "findOne" /\ FoundNothing') => mappings' = mappings]_vars

\* A sync of a listing whose mapping holds no storefront product reference
\* has returned false.
C22_Witness ==
  /\ FoundNothing
  /\ ReturnedFalseAtOnce
  /\ \E m \in mappings : m.bunjangPid = sync.bunjangPid

\* The set-on-hand request of the sync was answered with userErrors.
UserErrorsAnswered ==
  \E j \in SyncCalls("inventorySetOnHandQuantities") : sync.log[j].userErrors

\* The cached quantity and the last-inventory-sync time of every mapping.
InventoryCache ==
  {<<m._id, m.bunjangQuantity, m.lastInventorySyncAt>> : m \in mappings}

\* The step wrote quantity 1 and the sync time to the mapping of the synced
\* listing and to no other.
CacheWritten ==
  mappings' = {IF m.bunjangPid = sync.bunjangPid
               THEN [m EXCEPT !.bunjangQuantity = Some(1),
                              !.lastInventorySyncAt = Some("now")]
               ELSE m : m \in mappings}

\* C23: when the set-on-hand response carries a non-empty error list the sync
\* raises, issues no verification re-read and no corrective update, and the
\* mapping's cached quantity and last-inventory-sync time stay as they were;
\* the two fields are written (quantity 1) only by the step with which the
\* sync returns true.
C23_UserErrorsRaise ==
  [][/\ UserErrorsAnswered' =>
          /\ sync'.pc = "done"
          /\ sync'.result = "throw"
          /\ sync'.log[Len(sync'.log)].op = "inventorySetOnHandQuantities"
          /\ SyncCalls("getInventoryLevels")' = {}
          /\ SyncCalls("updateInventoryLevel")' = {}
          /\ SyncCalls("updateOne")' = {}
     /\ (sync.pc = "setOnHand" /\ UserErrorsAnswered') =>
          InventoryCache' = InventoryCache
     /\ InventoryCache' # InventoryCache =>
          /\ sync.pc = "updateOne"
          /\ sync'.pc = "done"
          /\ sync'.result = "true"
          /\ CacheWritten]_vars

\* A sync whose set-on-hand request was answered with userErrors although the
\* item is provisioned at the warehouse has raised, and the mapping was never
\* given a quantity or a sync time.
C23_Witness ==
  /\ UserErrorsAnswered
  /\ sync.result = "throw"
  /\ inventoryItem.onHand # None
  /\ \E m \in mappings :
       /\ m.bunjangPid = sync.bunjangPid
       /\ m.bunjangQuantity = None
       /\ m.lastInventorySyncAt = None

\* The re-read of the sync was answered.
ReRead ==
  \E j \in SyncCalls("getInventoryLevels") : sync.log[j].ok

\* The levels of the re-read show exactly 1 at the warehouse.
ShowsOne(levels) ==
  \E k \in 1..Len(levels) :
    /\ levels[k].location = BUNJANG_WAREHOUSE_GID
    /\ levels[k].available = 1

\* C24: once the verification of an answered re-read is over, the sync has
\* issued exactly one corrective updateInventoryLevel when the re-read did not
\* show exactly 1 at the warehouse (another value, or the warehouse missing
\* from the levels), and none when it showed exactly 1.
C24_CorrectionWhenNotOne ==
  (ReRead /\ sync.pc \in {"updateOne", "done"}) =>
    Cardinality(SyncCalls("updateInventoryLevel"))
      = (IF ShowsOne(sync.finalLevels) THEN 0 ELSE 1)

\* Every request named op is preceded, in the sync's log, by one named before.
Precedes(before, op) ==
  \A j \in SyncCalls(op) : \E i \in SyncCalls(before) : i < j

\* C26: within one sync the set-on-hand request is never issued before the
\* activation at the warehouse was requested; when the variant's inventory
\* item is not tracked the enable-tracking request precedes the activation
\* request, and when it is tracked no enable-tracking request is issued.
\* The tracking state is the one the storefront held when the variant was
\* fetched.
C26_StepOrdering ==
  [][/\ Precedes("activateInventoryAtLocation", "inventorySetOnHandQuantities")'
     /\ (sync.pc = "getVariants" /\ sync'.pc # "done") =>
          sync'.tracked = inventoryItem.tracked
     /\ ~sync'.tracked =>
          Precedes("enableInventoryTracking", "activateInventoryAtLocation")'
     /\ sync'.tracked => SyncCalls("enableInventoryTracking")' = {}]_vars

\* A sync of an untracked item has enabled tracking, requested activation and
\* issued the set-on-hand request.
C26_Witness ==
  /\ ~sync.tracked
  /\ SyncCalls("enableInventoryTracking") # {}
  /\ SyncCalls("activateInventoryAtLocation") # {}
  /\ SyncCalls("inventorySetOnHandQuantities") # {}

\* The requests of the sync that write a storefront inventory level.
InventoryWrites ==
  SyncCalls("inventorySetOnHandQuantities") \cup SyncCalls("updateInventoryLevel")

\* C25: every storefront inventory write of a sync, whoever called it (a
\* webhook handler with a decremented or a restored stock, an inventory
\* operation), names the warehouse location and carries quantity 1; a step
\* that changes the level of a provisioned item at the warehouse sets it to
\* 1, and no step changes the level at the other location.
C25_WritesOneAtWarehouse ==
  [][/\ \A j \in InventoryWrites' :
          /\ sync'.log[j].location = Some(BUNJANG_WAREHOUSE_GID)
          /\ sync'.log[j].quantity = 1
     /\ (inventoryItem.onHand # None
           /\ inventoryItem'.onHand # inventoryItem.onHand) =>
          inventoryItem'.onHand = Some(1)
     /\ inventoryItem'.other = inventoryItem.other]_vars

\* A webhook handler passed a restored stock above 1 to the sync, whose
\* set-on-hand request carried 1 and set the warehouse level to 1.
C25_Witness ==
  /\ hook.pc # "idle"
  /\ sync.bunjangQuantity > 1
  /\ \E j \in SyncCalls("inventorySetOnHandQuantities") :
       sync.log[j].ok /\ sync.log[j].quantity = 1
  /\ inventoryItem.onHand = Some(1)
  /\ inventoryItem.other = MaxQty

---------------------------------------------------------------------------
\* Properties of the pagination and of the status switch.

\* The page requests of the running (or last) status sync.
PageRequests ==
  {j \in 1..Len(statusSync.log) : statusSync.log[j].op = "getBunjangOrders"}

\* The pages a listing of totalPages pages is read in: the first page is
\* always asked for, it is the one that reports totalPages.
PagesToRead == IF Len(remoteOrders) = 0 THEN 1 ELSE Len(remoteOrders)

\* C29: the status sync asks for pages 0, 1, ... in increasing order, each
\* once, and never for a page past totalPages-1; a sync that ended with all
\* its page requests answered asked for every page up to totalPages-1 and
\* returned success. A page request answered with no response, or with a
\* response without data, is the last request of the sync, which ends at
\* once with success:true.
C29_Pagination ==
  LET s == statusSync IN
  /\ \A j \in PageRequests :
       /\ s.log[j].arg = Cardinality({i \in PageRequests : i < j})
       /\ s.log[j].arg < PagesToRead
       /\ s.log[j].missing =>
            /\ j = Len(s.log)
            /\ s.pc = "done"
            /\ s.result = "success"
  /\ s.pc \notin {"idle", "done"} => s.page < PagesToRead
  /\ (s.pc = "done" /\ s.result # "ValidationError"
        /\ \A j \in PageRequests : s.log[j].ok) =>
       /\ Cardinality(PageRequests) = PagesToRead
       /\ s.result = "success"

\* A sync over a listing of two pages has asked for page 0 and for page 1
\* and has returned success.
C29_Witness ==
  LET s == statusSync IN
  /\ Len(remoteOrders) = 2
  /\ s.pc = "done"
  /\ s.result = "success"
  /\ Cardinality(PageRequests) = 2
  /\ \A j \in PageRequests : s.log[j].ok

\* The step issued one request, which was accepted.
StatusRequestAccepted ==
  /\ Len(statusSync'.log) = Len(statusSync.log) + 1
  /\ statusSync'.log[Len(statusSync'.log)].ok

\* The request the step issued.
StatusRequest == statusSync'.log[Len(statusSync'.log)]

\* The step of the switch for the item's status.
SwitchStep ==
  LET status == CurrentOrderItem.status IN
  /\ status \in {"SHIP_READY", "IN_TRANSIT", "DELIVERY_COMPLETED"} =>
       /\ statusSync'.log = statusSync.log
       /\ UNCHANGED <<orderTags, orderMeta>>
       /\ statusSync'.pc = "stamp"
  /\ (status = "PURCHASE_CONFIRM" /\ StatusRequestAccepted) =>
       /\ StatusRequest.tags = <<>>
       /\ UNCHANGED orderTags
       /\ orderMeta'["purchase_confirmed"] = Some(<<"true">>)
       /\ orderMeta'["purchase_confirmed_at"] # None
       /\ statusSync'.pc = "stamp"
  /\ (status \in {"CANCEL_REQUESTED_BEFORE_SHIPPING", "REFUNDED",
                   "RETURN_REQUESTED", "RETURNED"} /\ StatusRequestAccepted) =>
       /\ StatusRequest.metafields = <<>>
       /\ UNCHANGED orderMeta
       /\ \E i \in 1..Len(orderTags') :
            orderTags'[i] = Tag("BunjangStatus-", NoNum, status)
       /\ \E i \in 1..Len(orderTags') :
            orderTags'[i] = Tag("BunjangOrder-", CurrentOrder.id, DashStatus(status))
       /\ statusSync'.pc = "stamp"
  /\ status \notin {"SHIP_READY", "IN_TRANSIT", "DELIVERY_COMPLETED",
                    "PURCHASE_CONFIRM", "CANCEL_REQUESTED_BEFORE_SHIPPING",
                    "REFUNDED", "RETURN_REQUESTED", "RETURNED"} =>
       /\ statusSync'.log = statusSync.log
       /\ UNCHANGED <<orderTags, orderMeta>>
       /\ statusSync'.pc = "stamp"

\* The step after the switch: the last-synced status is the item's.
StampStep ==
  /\ Len(statusSync'.log) = Len(statusSync.log) + 1
  /\ StatusRequest.op = "updateOrder"
  /\ StatusRequest.tags = <<>>
  /\ StatusRequest.ok =>
       /\ orderMeta'["last_bunjang_status"] = Some(<<CurrentOrderItem.status>>)
       /\ orderMeta'["last_status_sync"] # None
       /\ orderMeta'["purchase_confirmed"] = orderMeta["purchase_confirmed"]
       /\ UNCHANGED orderTags

\* C30: for each item of a matched remote order, SHIP_READY, IN_TRANSIT and
\* DELIVERY_COMPLETED cause no request, no tag and no confirmation write;
\* PURCHASE_CONFIRM sets the purchase-confirmed flag and the confirmation
\* time and adds no tag; CANCEL_REQUESTED_BEFORE_SHIPPING, REFUNDED,
\* RETURN_REQUESTED and RETURNED add the two status tags and write no
\* metadata; and after the switch, for every status, one in none of these
\* groups included, the last-synced status is set to the item's status.
C30_StatusActions ==
  [][/\ statusSync.pc = "itemAction" => SwitchStep
     /\ statusSync.pc = "stamp" => StampStep]_vars

\* The sync stamped the status of an item that is in none of the groups,
\* after it confirmed the purchase of another item of the same order.
C30_Witness ==
  /\ orderMeta["last_bunjang_status"] = Some(<<"PAYMENT_RECEIVED">>)
  /\ orderMeta["purchase_confirmed"] = Some(<<"true">>)
  /\ Cardinality({j \in 1..Len(statusSync.log) :
                    statusSync.log[j].op = "updateOrder" /\ statusSync.log[j].ok}) = 3

---------------------------------------------------------------------------
\* Properties of the full inventory sync.

\* The full sync has returned its results.
FullSyncReturned ==
  /\ svc.fn = "performFullInventorySync"
  /\ svc.pc = "done"
  /\ svc.result = "results"

\* The pauses and the syncs of the function, as positions of its log.
Pauses == {j \in 1..Len(svc.log) : svc.log[j].op = "pause"}
Attempts ==
  {j \in 1..Len(svc.log) : svc.log[j].op = "syncBunjangInventoryToShopify"}
AttemptsWith(outcome) == {j \in Attempts : svc.log[j].result = outcome}

\* C27: a full sync that returns has paused once for every two mappings it
\* processed: floor(N/2) times for N mappings, however many of them were
\* synced, skipped or failed.
C27_PausePerTwo ==
  FullSyncReturned =>
    Cardinality(Pauses) = Len(svc.syncedProducts) \div 2

\* C28: the full sync selects the mappings whose syncStatus is SYNCED and no
\* other, each once; it attempts them one after the other in the order they
\* were found, each once, whatever the earlier attempts did; when it returns
\* every selected mapping was attempted, synced + skipped + failed equals
\* totalProducts, each counter is the number of attempts with that outcome,
\* and deleted is 0.
C28_FullSyncTotals ==
  (svc.fn = "performFullInventorySync" /\ svc.pc \notin {"idle", "find"}
     /\ svc.result # "throw") =>
    LET found == svc.syncedProducts
        r == svc.results
    IN
    /\ {found[i] : i \in 1..Len(found)}
         = {m.bunjangPid : m \in {d \in mappings : d.syncStatus = "SYNCED"}}
    /\ \A i, j \in 1..Len(found) : found[i] = found[j] => i = j
    /\ r.totalProducts = Len(found)
    /\ Cardinality(Attempts) <= Len(found)
    /\ \A j \in Attempts :
         svc.log[j].pid = found[Cardinality({i \in Attempts : i <= j})]
    /\ r.synced = Cardinality(AttemptsWith("true"))
    /\ r.skipped = Cardinality(AttemptsWith("false"))
    /\ r.failed = Cardinality(AttemptsWith("throw"))
    /\ r.deleted = 0
    /\ FullSyncReturned =>
         /\ Cardinality(Attempts) = Len(found)
         /\ r.synced + r.skipped + r.failed = r.totalProducts

\* A full sync over two SYNCED mappings has returned: the sync of the first
\* one threw, the second one was attempted and synced.
C28_Witness ==
  /\ FullSyncReturned
  /\ svc.results.totalProducts = 2
  /\ svc.results.failed = 1
  /\ svc.results.synced = 1
  /\ \E j \in AttemptsWith("throw") : \E i \in AttemptsWith("true") : j < i

---------------------------------------------------------------------------
\* Properties of remote orders without a storefront order.

\* The storefront order carries the tag BunjangOrder-<id>.
Matched(id) ==
  \E j \in 1..Len(orderTags) : orderTags[j] = Tag("BunjangOrder-", id, "")

\* The step is the answered search for a remote order that no storefront
\* order is tagged with.
SearchFoundNothing ==
  /\ statusSync.pc = "search"
  /\ ~Matched(CurrentOrder.id)
  /\ Len(statusSync'.log) = Len(statusSync.log) + 1
  /\ statusSync'.log[Len(statusSync'.log)].ok

\* The sync has gone on after the order it was processing: to the next order
\* of the page, to the next page, or to its return.
WentOn ==
  \/ /\ statusSync'.pc = "search"
     /\ statusSync'.page = statusSync.page
     /\ statusSync'.order = statusSync.order + 1
  \/ /\ statusSync'.pc = "getOrders"
     /\ statusSync'.page = statusSync.page + 1
  \/ /\ statusSync'.pc = "done"
     /\ statusSync'.result = "success"

\* C31: when no storefront order carries the tag of a remote order, the
\* processing of that remote order changes no tag and no metadata of the
\* storefront, raises no error (errorCount stays) and the sync goes on with
\* the next remote order; no updateOrder request of a status sync names a
\* remote order that the storefront order is not tagged with.
C31_UnmatchedOrderSkipped ==
  [][/\ SearchFoundNothing =>
          /\ UNCHANGED <<orderTags, orderMeta>>
          /\ statusSync'.errorCount = statusSync.errorCount
          /\ WentOn
     /\ \A j \in 1..Len(statusSync'.log) :
          statusSync'.log[j].op = "updateOrder" =>
            \E i \in 1..Len(orderTags') :
              orderTags'[i] = Tag("BunjangOrder-", statusSync'.log[j].arg, "")]_vars

\* A sync has returned after it searched for the second remote order, which
\* the storefront order is not tagged with: its only update requests name
\* the first one.
C31_Witness ==
  /\ statusSync.pc = "done"
  /\ statusSync.result = "success"
  /\ ~Matched(FirstBunjangOrderId + 1)
  /\ \E j \in 1..Len(statusSync.log) :
       /\ statusSync.log[j].op = "findOrderByBunjangId"
       /\ statusSync.log[j].arg = FirstBunjangOrderId + 1
       /\ statusSync.log[j].ok
  /\ \E j \in 1..Len(statusSync.log) : statusSync.log[j].op = "updateOrder"
  /\ statusSync.errorCount = 0

\* The answered searches of the sync for a remote order that the storefront
\* order is tagged with.
MatchedSearches ==
  {j \in 1..Len(statusSync.log) :
     /\ statusSync.log[j].op = "findOrderByBunjangId"
     /\ statusSync.log[j].ok
     /\ Matched(statusSync.log[j].arg)}

\* C37: syncedCount counts only remote orders for which a matching storefront
\* order was found: it never exceeds the number of searches that found one.
C37_SyncedCountsMatchedOnly ==
  statusSync.syncedCount <= Cardinality(MatchedSearches)

---------------------------------------------------------------------------
\* Properties of the point-balance check.

LowPointBalanceTag == Tag("LowPointBalance", NoNum, "")

\* Invocation p took the step; the request it issued.
Stepped(p) == inv'[p] # inv[p]
Issued(p) == inv'[p].log[Len(inv'[p].log)]

\* The step kept what the creation recorded and put no error tag on the
\* order: the tags are as they were, or the low-balance tag was added.
KeptCreation(p) ==
  /\ inv'[p].createdBunjangOrderIds = inv[p].createdBunjangOrderIds
  /\ inv[p].createdBunjangOrderIds # <<>>
  /\ inv'[p].bunjangOrderSuccessfullyCreatedOverall
  /\ inv'[p].errorTag = inv[p].errorTag
  /\ UNCHANGED bunjangOrders
  /\ \/ UNCHANGED orderTags
     \/ /\ Issued(p).ok
        /\ Issued(p).tags = <<LowPointBalanceTag>>
        /\ orderTags' = MergeTags(orderTags, <<LowPointBalanceTag>>)

\* The invocation went on with the line item after the current one, or, after
\* the last one, with the write of the created ids.
WentToNextItem(p) ==
  IF inv[p].item < Len(inv[p].order.line_items)
  THEN inv'[p].pc = "findOne" /\ inv'[p].item = inv[p].item + 1
  ELSE inv'[p].pc = "writeMeta" /\ inv'[p].item = inv[p].item

\* C32: the point-balance check after a created remote order is best-effort.
\* Whether the balance fetch answers, answers nothing or throws, and whether
\* the low-balance tagging is accepted or throws, the created id stays in the
\* invocation's list, no error tag is put on the order and the invocation goes
\* on with the next line item; the low-balance tag is requested only after a
\* fetch that answered a balance below 1000000; an invocation that made the
\* check and returns, returns success:true with the created ids.
C32_BalanceCheckBestEffort ==
  [][\A p \in Invocations :
       /\ (Stepped(p) /\ inv[p].pc = "pointBalance") =>
            /\ KeptCreation(p)
            /\ UNCHANGED orderTags
            /\ IF Issued(p).ok /\ Issued(p).res # None
                   /\ Val(Issued(p).res) < 1000000
               THEN inv'[p].pc = "tagLowBalance"
               ELSE WentToNextItem(p)
       /\ (Stepped(p) /\ inv[p].pc = "tagLowBalance") =>
            /\ KeptCreation(p)
            /\ WentToNextItem(p)
       /\ (Stepped(p) /\ Len(inv'[p].log) > Len(inv[p].log)
             /\ Issued(p).tags = <<LowPointBalanceTag>>) =>
            inv[p].pc = "tagLowBalance"
       /\ (inv'[p].pc = "done" /\ inv'[p].result.kind = "return"
             /\ \E j \in 1..Len(inv'[p].log) :
                  inv'[p].log[j].op = "getBunjangPointBalance") =>
            /\ inv'[p].result.success
            /\ inv'[p].result.bunjangOrderIds = inv'[p].createdBunjangOrderIds
            /\ inv'[p].createdBunjangOrderIds # <<>>]_vars

\* An invocation over two line items has returned success:true with two
\* created ids after the balance fetch of the first item answered a balance
\* below the threshold and the low-balance tagging threw.
C32_Witness ==
  \E p \in Invocations :
    /\ Succeeded(p)
    /\ Len(inv[p].result.bunjangOrderIds) = 2
    /\ \E j \in ItemCalls(p, "getBunjangPointBalance", 1) :
         Log(p)[j].res = Some(LOW_BALANCE_THRESHOLD - 1)
    /\ \E j \in ItemCalls(p, "updateOrder", 1) :
         /\ Log(p)[j].tags = <<LowPointBalanceTag>>
         /\ ~Log(p)[j].ok
    /\ ~HasTag(LowPointBalanceTag)
    /\ \A j \in 1..Len(orderTags) : orderTags[j][3] # "_Error"

---------------------------------------------------------------------------
\* Properties of the marking of a line item.

\* The creation requests of p that were answered without an order id.
CreatesWithoutId(p) ==
  {j \in Calls(p, "createBunjangOrderV2") : Log(p)[j].ok /\ Log(p)[j].res = None}

\* C36: a creation response without an order id counts as a failure. No
\* remote order id is recorded for that line item; the request that follows
\* is the updateOrder with the order's error marker and the NoOrderId tag of
\* the listing, which are on the order once it is accepted; and an invocation
\* that returns without any created id returns success:false and has written
\* no order_ids metadata.
C36_NoOrderIdIsFailure ==
  \A p \in Invocations : \A j \in CreatesWithoutId(p) :
    LET e == Log(p)[j]
        tags == <<Tag("BunjangOrder-", inv[p].order.id, "_Error"),
                  Tag("PID-", e.arg, "-NoOrderId")>>
    IN
    /\ \A o \in OrdersBy(p) : bunjangOrders[o].item # e.item
    /\ Len(inv[p].createdBunjangOrderIds) = Cardinality(OrdersBy(p))
    /\ j = Len(Log(p)) => inv[p].pc = "tagNoOrderId"
    /\ j < Len(Log(p)) =>
         /\ Log(p)[j + 1].op = "updateOrder"
         /\ Log(p)[j + 1].item = e.item
         /\ Log(p)[j + 1].tags = tags
         /\ Log(p)[j + 1].ok => (HasTag(tags[1]) /\ HasTag(tags[2]))
    /\ (inv[p].pc = "done" /\ inv[p].result.kind = "return"
          /\ inv[p].createdBunjangOrderIds = <<>>) =>
         /\ ~inv[p].result.success
         /\ inv[p].result.bunjangOrderIds = <<>>
         /\ MetaWrites(p) = {}

\* An invocation whose only creation was answered without an id has tagged
\* the order NoOrderId and has returned success:false; the order holds no
\* order_ids metadata.
C36_Witness ==
  \E p \in Invocations : \E j \in CreatesWithoutId(p) :
    /\ inv[p].pc = "done"
    /\ inv[p].result.kind = "return"
    /\ ~inv[p].result.success
    /\ HasTag(Tag("PID-", Log(p)[j].arg, "-NoOrderId"))
    /\ HasTag(Tag("BunjangOrder-", inv[p].order.id, "_Error"))
    /\ orderMeta["order_ids"] = None

\* The suffixes of the tags that classify a failed creation.
ClassificationSuffixes ==
  {"-CreateFail", "-NotAvailable", "-PriceChanged", "-InsufficientPoints"}

\* Invocation p had a classification tag of the listing of line item k
\* applied to the order.
ClassifiedAsFailed(p, k, pid) ==
  \E j \in ItemCalls(p, "updateOrder", k) :
    /\ Log(p)[j].ok
    /\ \E i \in 1..Len(Log(p)[j].tags) : \E suf \in ClassificationSuffixes :
         Log(p)[j].tags[i] = Tag("PID-", pid, suf)

\* C35: within one invocation no line item has both a remote order id
\* recorded in the id list and a classification tag (CreateFail,
\* NotAvailable, PriceChanged, InsufficientPoints) of its listing applied to
\* the storefront order.
C35_MarkingExclusive ==
  \A p \in Invocations : \A o \in OrdersBy(p) :
    ~ClassifiedAsFailed(p, bunjangOrders[o].item, bunjangOrders[o].product.id)

\* The ids the order_ids metadata of the storefront order holds.
RecordedIds ==
  IF orderMeta["order_ids"] = None THEN <<>>
  ELSE JSONParse(Val(orderMeta["order_ids"]))

\* C34: when an invocation that created at least one remote order has ended,
\* by returning or by throwing, the order_ids metadata of the storefront
\* order holds every remote order id the invocation created.
C34_CreatedIdsRecorded ==
  \A p \in Invocations :
    inv[p].pc = "done" =>
      \A i \in 1..Len(inv[p].createdBunjangOrderIds) :
        \E k \in 1..Len(RecordedIds) :
          RecordedIds[k] = inv[p].createdBunjangOrderIds[i]

---------------------------------------------------------------------------
\* Properties of the range guard of the scheduler.

OverRange(spanHours) == spanHours > MaxRangeDays * HoursPerDay

\* The job a result of manualOrderSync names is in the queue, was added for
\* the manual sync and carries the window that was asked for.
NamesQueuedJob(m) ==
  /\ IsSome(m.jobId)
  /\ Val(m.jobId) \in 1..Len(scheduler.queue)
  /\ scheduler.queue[Val(m.jobId)].trigger = "manual"
  /\ scheduler.queue[Val(m.jobId)].spanHours = m.spanHours

\* C33: no job of the queue has a window over 15 days; a manual sync
\* returns success: true only with the job that was added for it, and for
\* a window over 15 days scheduleOrderStatusSync gave back null, nothing
\* was added and the manual sync returned success: false.
C33_RangeGuard ==
  /\ \A j \in 1..Len(scheduler.queue) : ~OverRange(scheduler.queue[j].spanHours)
  /\ Len(scheduler.queue) =
       Cardinality({k \in 1..Len(scheduler.returned) :
                      scheduler.returned[k].outcome = "job"})
  /\ \A k \in 1..Len(scheduler.manual) :
       LET m == scheduler.manual[k] IN
       /\ m.success => NamesQueuedJob(m)
       /\ OverRange(m.spanHours) => m.outcome = "null" /\ ~m.success

\* A manual sync over 16 days was refused, one over 15 days was queued,
\* and one was refused by the queue.
C33_Witness ==
  /\ Len(scheduler.manual) = 3
  /\ \E a, b, c \in 1..3 :
       /\ OverRange(scheduler.manual[a].spanHours)
       /\ ~scheduler.manual[a].success
       /\ scheduler.manual[b].success
       /\ scheduler.manual[b].spanHours = MaxRangeDays * HoursPerDay
       /\ scheduler.manual[c].outcome = "throw"
       /\ ~scheduler.manual[c].success
  /\ Len(scheduler.queue) = 1

---------------------------------------------------------------------------
\* Properties of the webhook handlers when the remote product detail could
\* not be fetched.

\* checkAndSyncBunjangInventory returned -1 for the line item the handler
\* is at.
StockUnknown == hook.currentStock = 0 - 1

\* C38: while a webhook handler (order created, order updated with a
\* cancellation, order cancelled) is at a line item for which
\* checkAndSyncBunjangInventory returned -1, the sync it awaits for that
\* item has issued no storefront inventory write.
C38_NoWriteWhenStockUnknown ==
  (hook.pc = "sync" /\ StockUnknown) => InventoryWrites = {}

---------------------------------------------------------------------------
\* Properties of the automatic linking under overlapping invocations.

\* The tag read of line item k answered with the product's bunjang_pid tag.
TagReadSucceeded(p, k) ==
  /\ HasPidTag(k)
  /\ \E j \in ItemCalls(p, "getProductTags", k) : Log(p)[j].ok

\* The product-detail fetch for the listing id the tag of product k names.
FetchedDetailsOf(p, k) ==
  \E j \in ItemCalls(p, "getBunjangProductDetails", k) : Log(p)[j].arg = PidOf(k)

\* C39: in every interleaving of the invocations, a line item whose product
\* carries the bunjang_pid tag and whose tag read succeeded has, once the
\* invocation is done with it, reached the product-detail fetch for that
\* listing id.
C39_TaggedItemFetchesDetails ==
  \A p \in Invocations : \A k \in 1..Len(inv[p].order.line_items) :
    (TagReadSucceeded(p, k) /\ PastItem(p, k)) => FetchedDetailsOf(p, k)

=============================================================================
